---- MODULE Spec2Model ----
(***************************************************************************)
(* Order & inventory consistency of Inventoryflow: the order workflow      *)
(* (confirm / deliver / cancel), the stock column inventory_pieces, the    *)
(* draft sweep and the invoice generator, as state machines over the       *)
(* shared datastore.                                                       *)
(***************************************************************************)
EXTENDS Integers, Sequences, FiniteSets, TLC

\* ------------------------------------------------------------------ bounds
NumProducts == 2
NumOrders == 2
NumIssueCalls == 2
NumInvoiceNumbers == 2
MaxStock == 3
MaxCases == 2
PiecesPerCase == 2
MaxConfirmCalls == 2
MaxAdjust == 2
MaxRestock == 2
MaxAdjustments == 2
MaxAuditEntries == 5
MaxReturns == 2
MaxPiecesReturned == 2
MaxPrice == 2
NumSweeps == 2
MaxTime == 50
NumTxns == 2
NumInvokes == 2
MaxDiscount == 2
NumSessions == 2
MaxInstallments == 2
MaxPayments == 2
MaxTotal == 2

Products == 1..NumProducts
Orders == 1..NumOrders
IssueCalls == 1..NumIssueCalls
\* The numbers Math.floor(10000 + Math.random() * 90000) can draw, as a small pool.
InvoiceNumbers == 1..NumInvoiceNumbers
NoOrder == 0
NoProduct == 0
NotLoaded == -1

OrderStatus == {"draft", "confirmed", "delivered", "cancelled"}
Deleted == "deleted"

VARIABLES
    inventory_pieces,   \* blast_products.inventory_pieces, per product
    status,             \* blast_orders.status, per order ("deleted": no row)
    order_items,        \* blast_order_items of each order, in insertion order
    order_old,          \* whether the order's created_at is more than 24 hours ago
    displayed,          \* statuses that some open OrderDetail page shows
    shown_pieces,       \* the stock per product that the open Inventory page shows
    sweep,              \* ids the running inv_clear_drafts has selected
    blast_returns,      \* the return requests
    blast_inventory_adjustments, \* the adjustment rows, in insertion order
    blast_audit_logs,   \* the audit entries, in insertion order
    blast_products,     \* unit_price_piece and pieces_per_case of each product
    auth,               \* the browser tab's clock, session and idle timer
    txns,               \* the stock transactions in progress and the row locks they hold
    invokes,            \* the invokeEdgeFunction calls of the order pages
    order_totals,       \* total_amount and discount_value of each order row, in centavos
    customers,          \* the customer's balance, debts and payments, and the pages' copies
    blast_invoices,     \* the invoice rows
    storage,            \* the 'invoices' bucket: the document stored at each path
    issue,              \* the inv_generate_invoice requests in progress
    response,           \* the last response a handler returned
    initial_pieces,     \* history: inventory_pieces at the start
    confirm_log,        \* history: responses of the confirm calls, per order
    pre_confirm         \* history: stock before an order's confirmation

order_vars == <<status, order_items, order_old>>
ui_vars == <<displayed, shown_pieces>>
hist_vars == <<initial_pieces, confirm_log, pre_confirm>>
inv_vars == <<blast_invoices, storage, issue>>
ext_rest == <<auth, txns, invokes, customers>>
ext_vars == <<ext_rest, order_totals>>
side_vars == <<blast_returns, blast_inventory_adjustments, blast_audit_logs, blast_products>>
vars == <<inventory_pieces, order_vars, ui_vars, sweep, side_vars, inv_vars, ext_vars, response,
          hist_vars>>

\* --------------------------------------------------------------- helpers
Min(S) == CHOOSE x \in S : \A y \in S : x <= y

RECURSIVE SumSeq(_)
SumSeq(s) == IF s = <<>> THEN 0 ELSE Head(s) + SumSeq(Tail(s))

\* computed_pieces = cases * pieces_per_case_snapshot
ComputedPieces(item) == item.cases_ordered * item.pieces_per_case_snapshot

\* pieces of product p over the items of one order
PiecesOf(items, p) ==
    SumSeq([i \in 1..Len(items) |->
              IF items[i].product_id = p THEN ComputedPieces(items[i]) ELSE 0])

\* A cart line as Pos.saveOrder stores it: a 'case' line keeps the product's
\* pieces_per_case, a 'piece' line stores the pieces as qty with a snapshot of 1.
CartLines ==
    [product_id : Products,
     cases_ordered : 1..MaxCases,
     pieces_per_case_snapshot : {1, PiecesPerCase}]

\* Carts of one or two lines on distinct products.
Carts ==
    {<<l>> : l \in CartLines}
    \cup {c \in CartLines \X CartLines : c[1].product_id # c[2].product_id}

\* A handler's JSON answer: success or { error: message }.
Resp(fn, order_id, ok, error, product) ==
    [fn |-> fn, order |-> order_id, ok |-> ok, error |-> error, product |-> product,
     stock_restored |-> FALSE]

NoResponse == Resp("none", NoOrder, FALSE, "", NoProduct)

Idle == [pc |-> "idle", ids |-> {}]
\* The runs of inv_clear_drafts: the scheduled one, and the ones that overlap it
\* (a retry after a timeout, a second trigger).
SweepRuns == 1..NumSweeps
CronRun == 1
NoSweep == [w \in SweepRuns |-> Idle]
\* No session in the tab, no idle timer set.
NoSession == [expires_at |-> 0 - 1]
NoTimer == 0 - 1
NoAuth == [now |-> 0, session |-> NoSession, timer |-> NoTimer, signed_in_at |-> 0,
           last_event |-> 0]
\* The state outside the orders and the stock, for the specifications that do
\* not exercise it.
Txns == 1..NumTxns
NoTxn == [pc |-> "none", kind |-> "", order |-> 0, held |-> {}, locks |-> <<>>]
Invokes == 1..NumInvokes
NoInvoke == [pc |-> "none", fn |-> "", order |-> 0, handled |-> FALSE, applied |-> FALSE,
             told |-> ""]
NoTotals == [total_amount |-> 0, discount_value |-> 0]
Sessions == 1..NumSessions
NoCustomers == [outstanding_balance |-> 0, installments |-> <<>>, payments |-> <<>>,
                shown |-> [s \in Sessions |-> 0 - 1]]
InitExt ==
    /\ auth = NoAuth
    /\ txns = [t \in Txns |-> NoTxn]
    /\ invokes = [c \in Invokes |-> NoInvoke]
    /\ order_totals = [o \in Orders |-> NoTotals]
    /\ customers = NoCustomers

\* Product rows whose price and packaging play no part: price 1, the case size
\* the carts use.
DefaultProducts ==
    [p \in Products |-> [unit_price_piece |-> 1, pieces_per_case |-> PiecesPerCase]]
NoSnapshot == [taken |-> FALSE]


\* The snapshots after a write that changes inventory_pieces from inv to new: every
\* confirmed order remembers which products were written since its confirmation.
Retouch(pc, inv, new) ==
    [o \in Orders |->
        IF pc[o].taken
        THEN [pc[o] EXCEPT !.touched = @ \cup {p \in Products : new[p] # inv[p]}]
        ELSE pc[o]]

\* ------------------------------------------ confirm: RPC and edge function
\* Items whose product has less stock than the line needs.
FailingLines(items, inv) ==
    {i \in 1..Len(items) : inv[items[i].product_id] < ComputedPieces(items[i])}

\* A transaction that deducts without verifying the stock.
ConfirmNoStockCheck(o, st, items, inv) ==
    IF o \notin Orders \/ st[o] # "draft"
    THEN [error |-> "InvalidState", product |-> NoProduct, inv |-> inv, st |-> st]
    ELSE [error |-> "", product |-> NoProduct,
          inv |-> [p \in Products |-> inv[p] - PiecesOf(items[o], p)],
          st |-> [st EXCEPT ![o] = "confirmed"]]

\* A transaction that keeps the deductions made before the line that fails.
ConfirmPartialDeduct(o, st, items, inv) ==
    IF o \notin Orders \/ st[o] # "draft"
    THEN [error |-> "InvalidState", product |-> NoProduct, inv |-> inv, st |-> st]
    ELSE IF FailingLines(items[o], inv) # {}
    THEN [error |-> "InsufficientStock",
          product |-> items[o][Min(FailingLines(items[o], inv))].product_id,
          inv |-> [p \in Products |->
                     inv[p] - PiecesOf(SubSeq(items[o], 1, Min(FailingLines(items[o], inv)) - 1), p)],
          st |-> st]
    ELSE [error |-> "", product |-> NoProduct,
          inv |-> [p \in Products |-> inv[p] - PiecesOf(items[o], p)],
          st |-> [st EXCEPT ![o] = "confirmed"]]

\* A transaction that does not look at the order's status.
ConfirmNoStatusCheck(o, st, items, inv) ==
    IF o \notin Orders \/ st[o] = Deleted
    THEN [error |-> "InvalidState", product |-> NoProduct, inv |-> inv, st |-> st]
    ELSE IF FailingLines(items[o], inv) # {}
    THEN [error |-> "InsufficientStock",
          product |-> items[o][Min(FailingLines(items[o], inv))].product_id,
          inv |-> inv, st |-> st]
    ELSE [error |-> "", product |-> NoProduct,
          inv |-> [p \in Products |-> inv[p] - PiecesOf(items[o], p)],
          st |-> [st EXCEPT ![o] = "confirmed"]]

\* blast_confirm_order_transaction: one transaction that checks the order is a
\* draft, locks the products, verifies every line and deducts.
blast_confirm_order_transaction(o, st, items, inv) ==
    IF o \notin Orders \/ st[o] # "draft"
    THEN [error |-> "InvalidState", product |-> NoProduct, inv |-> inv, st |-> st]
    ELSE IF FailingLines(items[o], inv) # {}
    THEN [error |-> "InsufficientStock",
          product |-> items[o][Min(FailingLines(items[o], inv))].product_id,
          inv |-> inv, st |-> st]
    ELSE [error |-> "", product |-> NoProduct,
          inv |-> [p \in Products |-> inv[p] - PiecesOf(items[o], p)],
          st |-> [st EXCEPT ![o] = "confirmed"]]

\* inv_confirm_order: what the handler answers for an RPC result ("if (error)
\* throw error" is caught and answered with status 400 and the message).
ConfirmResponse(order_id, rpc) ==
    IF order_id = NoOrder
    THEN Resp("inv_confirm_order", order_id, FALSE, "Missing order_id", NoProduct)
    ELSE IF rpc.error # ""
    THEN Resp("inv_confirm_order", order_id, FALSE, rpc.error, rpc.product)
    ELSE Resp("inv_confirm_order", order_id, TRUE, "", NoProduct)

\* The inv_confirm_order handler for one request.
InvConfirmOrder(order_id) ==
    LET rpc == blast_confirm_order_transaction(order_id, status, order_items, inventory_pieces)
        res == ConfirmResponse(order_id, rpc)
    IN  /\ response' = res
        /\ IF order_id = NoOrder
           THEN UNCHANGED <<inventory_pieces, status>>
           ELSE /\ inventory_pieces' = rpc.inv
                /\ status' = rpc.st
        \* on success doAction reloads the page (fetchOrder)
        /\ displayed' = IF res.ok /\ order_id # NoOrder /\ status'[order_id] # Deleted
                        THEN [displayed EXCEPT ![order_id] = @ \cup {status'[order_id]}]
                        ELSE displayed
        /\ UNCHANGED <<order_items, order_old, shown_pieces, sweep, side_vars, inv_vars, ext_vars,
                       initial_pieces>>

\* OrderDetail.doAction('confirm'): the Confirm button of a page showing a draft.
ConfirmCall(o) ==
    /\ "draft" \in displayed[o]
    /\ InvConfirmOrder(o)

DoConfirm(o) ==
    /\ ConfirmCall(o)
    /\ UNCHANGED <<confirm_log, pre_confirm>>

\* A request whose body carries no order_id.
ConfirmMissingId ==
    /\ InvConfirmOrder(NoOrder)
    /\ UNCHANGED <<confirm_log, pre_confirm>>

\* The same button, with the answers of each order's calls kept.
DoConfirmLogged(o) ==
    /\ Len(confirm_log[o]) < MaxConfirmCalls
    /\ ConfirmCall(o)
    /\ confirm_log' = [confirm_log EXCEPT ![o] = Append(@, response')]
    /\ UNCHANGED pre_confirm

\* The same button, with the stock before a successful confirmation kept.
DoConfirmTracked(o) ==
    /\ ConfirmCall(o)
    /\ pre_confirm' =
          IF response'.ok
          THEN [Retouch(pre_confirm, inventory_pieces, inventory_pieces') EXCEPT
                  ![o] = [taken |-> TRUE, inv |-> inventory_pieces, touched |-> {}]]
          ELSE pre_confirm
    /\ UNCHANGED confirm_log

\* ------------------------------------------------------ cancel and deliver
\* A cancel that marks the order cancelled and puts nothing back.
CancelNoRestore(o, st, items, inv) ==
    IF o \notin Orders \/ st[o] \notin {"draft", "confirmed"}
    THEN [error |-> "InvalidState", restored |-> FALSE, inv |-> inv, st |-> st]
    ELSE [error |-> "", restored |-> st[o] = "confirmed", inv |-> inv,
          st |-> [st EXCEPT ![o] = "cancelled"]]

\* blast_cancel_order_transaction: a draft is only marked cancelled; a confirmed
\* order gets every line's pieces put back, then is marked cancelled.
blast_cancel_order_transaction(o, st, items, inv) ==
    IF o \notin Orders \/ st[o] \notin {"draft", "confirmed"}
    THEN [error |-> "InvalidState", restored |-> FALSE, inv |-> inv, st |-> st]
    ELSE IF st[o] = "draft"
    THEN [error |-> "", restored |-> FALSE, inv |-> inv,
          st |-> [st EXCEPT ![o] = "cancelled"]]
    ELSE [error |-> "", restored |-> TRUE,
          inv |-> [p \in Products |-> inv[p] + PiecesOf(items[o], p)],
          st |-> [st EXCEPT ![o] = "cancelled"]]

\* inv_cancel_order: the edge function around the cancel transaction.
InvCancelOrder(order_id) ==
    LET rpc == blast_cancel_order_transaction(order_id, status, order_items, inventory_pieces)
        res == IF rpc.error # ""
               THEN Resp("inv_cancel_order", order_id, FALSE, rpc.error, NoProduct)
               ELSE [Resp("inv_cancel_order", order_id, TRUE, "", NoProduct)
                       EXCEPT !.stock_restored = rpc.restored]
    IN  /\ response' = res
        /\ inventory_pieces' = rpc.inv
        /\ status' = rpc.st
        /\ displayed' = IF res.ok
                        THEN [displayed EXCEPT ![order_id] = @ \cup {status'[order_id]}]
                        ELSE displayed
        /\ UNCHANGED <<order_items, order_old, shown_pieces, sweep, side_vars, inv_vars, ext_vars,
                       initial_pieces, confirm_log>>

\* OrderDetail.doAction('cancel'): the Cancel button is rendered for a page that
\* shows a draft or a confirmed order.
CancelCall(o) ==
    /\ displayed[o] \cap {"draft", "confirmed"} # {}
    /\ InvCancelOrder(o)

DoCancel(o) ==
    /\ CancelCall(o)
    /\ UNCHANGED pre_confirm

\* The same button, with the snapshots of the confirmed orders kept up to date.
DoCancelTracked(o) ==
    /\ CancelCall(o)
    /\ pre_confirm' = [Retouch(pre_confirm, inventory_pieces, inventory_pieces') EXCEPT
                         ![o] = IF response'.ok THEN NoSnapshot ELSE @]

\* The row update of doAction('deliver'): update ... set status = 'delivered'
\* where id = o. Nothing in the statement looks at the stored status.
DeliverUpdate(o, st) ==
    IF st[o] = Deleted THEN st ELSE [st EXCEPT ![o] = "delivered"]

\* OrderDetail.doAction('deliver'): the Mark Delivered button is rendered for a
\* page that shows a confirmed order; the client updates the row itself.
DoDeliver(o) ==
    /\ "confirmed" \in displayed[o]
    /\ status' = DeliverUpdate(o, status)
    /\ response' = Resp("deliver", o, TRUE, "", NoProduct)
    /\ displayed' = IF status'[o] # Deleted
                    THEN [displayed EXCEPT ![o] = @ \cup {status'[o]}]
                    ELSE displayed
    /\ UNCHANGED <<inventory_pieces, order_items, order_old, shown_pieces, sweep,
                   side_vars, inv_vars, ext_vars, hist_vars>>

\* OrderDetail.fetchOrder: a page (re)loads the order row.
FetchOrder(o) ==
    /\ status[o] # Deleted
    /\ status[o] \notin displayed[o]
    /\ displayed' = [displayed EXCEPT ![o] = @ \cup {status[o]}]
    /\ UNCHANGED <<inventory_pieces, order_vars, shown_pieces, sweep, side_vars, inv_vars, ext_vars,
                   response, hist_vars>>

\* ----------------------------------------------------------- draft sweep
\* 24 hours pass since the order was created.
AgeOrder(o) ==
    /\ status[o] # Deleted
    /\ ~order_old[o]
    /\ order_old' = [order_old EXCEPT ![o] = TRUE]
    /\ UNCHANGED <<inventory_pieces, status, order_items, ui_vars, sweep,
                   side_vars, inv_vars, ext_vars, response, hist_vars>>

\* A first query without the status filter: every order older than 24 hours.
OldOrders(st, old) == {o \in Orders : st[o] # Deleted /\ old[o]}

\* inv_clear_drafts, first query: the ids of the drafts older than 24 hours.
ExpiredDrafts(st, old) == {o \in Orders : st[o] = "draft" /\ old[o]}

InvClearDraftsSelect(w) ==
    /\ sweep[w] = Idle
    /\ ExpiredDrafts(status, order_old) # {}
    /\ sweep' = [sweep EXCEPT ![w] = [pc |-> "selected",
                                      ids |-> ExpiredDrafts(status, order_old)]]
    /\ UNCHANGED <<inventory_pieces, order_vars, ui_vars, side_vars, inv_vars, ext_vars, response,
                   hist_vars>>

\* inv_clear_drafts, second query: delete ... where id in (ids). The items go
\* with their order (cascade): the items of a deleted order are no rows any more.
DeleteIn(ids, st) == [o \in Orders |-> IF o \in ids THEN Deleted ELSE st[o]]

InvClearDraftsDelete(w) ==
    /\ sweep[w].pc = "selected"
    /\ status' = DeleteIn(sweep[w].ids, status)
    /\ sweep' = [sweep EXCEPT ![w] = Idle]
    /\ response' = Resp("inv_clear_drafts", NoOrder, TRUE, "", NoProduct)
    /\ UNCHANGED <<inventory_pieces, order_items, order_old, ui_vars, side_vars, inv_vars, ext_vars,
                   hist_vars>>

\* ---------------------------------------------- restock and adjustment
\* Inventory.fetchProducts: an Inventory page (re)loads the product rows.
FetchProducts ==
    /\ shown_pieces # inventory_pieces
    /\ shown_pieces' = inventory_pieces
    /\ UNCHANGED <<inventory_pieces, order_vars, displayed, sweep, side_vars, inv_vars, ext_vars,
                   response, hist_vars>>

\* handleAdjust: const after = before + change, with change = -qty and before
\* the inventory_pieces of the row as the page loaded it.
AdjustAfter(before, qty) == before - qty

\* handleAdjust's early returns: qty must be a positive number and the value to
\* write must not be negative.
AdjustAccepted(before, qty) == qty > 0 /\ AdjustAfter(before, qty) >= 0

\* Inventory.handleAdjust for product p, the typed quantity qty, on a page that
\* shows `before` pieces: update blast_products set inventory_pieces = after.
AdjustCall(p, qty, before) ==
    /\ before = shown_pieces[p]
    /\ IF AdjustAccepted(before, qty)
       THEN /\ inventory_pieces' = [inventory_pieces EXCEPT ![p] = AdjustAfter(before, qty)]
            /\ response' = Resp("handleAdjust", NoOrder, TRUE, "", p)
       ELSE /\ inventory_pieces' = inventory_pieces
            /\ response' = Resp("handleAdjust", NoOrder, FALSE, "InvalidArgument", p)
    \* on success the page reloads the products
    /\ shown_pieces' = IF AdjustAccepted(before, qty) THEN inventory_pieces'
                       ELSE shown_pieces
    /\ UNCHANGED <<order_vars, displayed, sweep, blast_returns, blast_audit_logs, blast_products, inv_vars, ext_vars,
                   hist_vars>>

\* handleAdjust as the stock column sees it (the adjustment rows are not kept).
HandleAdjust(p, qty, before) ==
    /\ AdjustCall(p, qty, before)
    /\ UNCHANGED blast_inventory_adjustments

\* The row handleAdjust inserts after its update: quantity_change = change,
\* quantity_before = before, quantity_after = after.
AdjustmentRow(p, qty, before) ==
    [product_id |-> p, adjustment_type |-> "damaged", quantity_change |-> 0 - qty,
     quantity_before |-> before, quantity_after |-> AdjustAfter(before, qty)]

\* handleAdjust with the row it inserts into blast_inventory_adjustments.
HandleAdjustLogged(p, qty, before) ==
    /\ Len(blast_inventory_adjustments) < MaxAdjustments
    /\ AdjustCall(p, qty, before)
    /\ blast_inventory_adjustments' =
          IF AdjustAccepted(before, qty)
          THEN Append(blast_inventory_adjustments, AdjustmentRow(p, qty, before))
          ELSE blast_inventory_adjustments

\* blast_admin_restock_transaction: adds the pieces to the product's stock in one
\* transaction.
blast_admin_restock_transaction(p, n, inv) == [inv EXCEPT ![p] = @ + n]

\* The amounts a request body can carry: negative, zero (or none), positive.
RestockAmounts == (0 - 1)..MaxRestock

\* A check that lets every amount through.
RestockAnyAmount(product_id, additional_pieces) == product_id # NoProduct

\* inv_admin_restock: if (!product_id || additional_pieces == null ||
\* additional_pieces <= 0) throw; a missing amount is modelled as 0.
RestockValid(product_id, additional_pieces) ==
    product_id # NoProduct /\ additional_pieces > 0

\* The inv_admin_restock handler for one request.
RestockCall(product_id, additional_pieces) ==
    /\ product_id # NoProduct =>
          inventory_pieces[product_id] + additional_pieces <= MaxStock
    /\ IF RestockValid(product_id, additional_pieces)
       THEN /\ inventory_pieces' =
                  blast_admin_restock_transaction(product_id, additional_pieces,
                                                  inventory_pieces)
            /\ response' = Resp("inv_admin_restock", NoOrder, TRUE, "", product_id)
       ELSE /\ inventory_pieces' = inventory_pieces
            /\ response' = Resp("inv_admin_restock", NoOrder, FALSE,
                                  "Missing or invalid parameters", product_id)
    /\ UNCHANGED <<order_vars, ui_vars, sweep, blast_returns, blast_audit_logs, blast_products, inv_vars, ext_vars,
                   hist_vars>>

\* inv_admin_restock as the stock column sees it (the adjustment rows are not kept).
InvAdminRestock(product_id, additional_pieces) ==
    /\ RestockCall(product_id, additional_pieces)
    /\ UNCHANGED blast_inventory_adjustments

\* The adjustment row the restock transaction writes with its update.
RestockRow(p, n, inv) ==
    <<[product_id |-> p, adjustment_type |-> "restock", quantity_change |-> n,
       quantity_before |-> inv[p], quantity_after |-> inv[p] + n]>>

\* inv_admin_restock with the row its transaction writes.
InvAdminRestockLogged(product_id, additional_pieces) ==
    /\ Len(blast_inventory_adjustments) < MaxAdjustments
    /\ RestockCall(product_id, additional_pieces)
    /\ blast_inventory_adjustments' =
          IF RestockValid(product_id, additional_pieces)
          THEN blast_inventory_adjustments
                 \o RestockRow(product_id, additional_pieces, inventory_pieces)
          ELSE blast_inventory_adjustments

\* ------------------------------------------------------ invoice generator
NoDocument == 0
NoCall == [pc |-> "idle", order |-> NoOrder, number |-> 0, path |-> 0,
           ok |-> FALSE, error |-> ""]

NoInvoices ==
    /\ blast_invoices = {}
    /\ storage = [n \in InvoiceNumbers |-> NoDocument]
    /\ issue = [c \in IssueCalls |-> NoCall]

\* finalPdfPath = `invoices/${invoiceNumber}.pdf`: one path per invoice number.
PdfPath(invoiceNumber) == invoiceNumber

\* The rows .eq('order_id', order_id) selects.
InvoicesOf(o, rows) == {r \in rows : r.order_id = o}

\* .single() gives the row when exactly one row matches, and no data otherwise.
Single(rows) == IF Cardinality(rows) = 1 THEN CHOOSE r \in rows : TRUE ELSE [pdf_url |-> 0]

\* An insert that no constraint refuses.
InsertUnchecked(row, rows) == [error |-> "", rows |-> rows \cup {row}]

\* insert into blast_invoices: order_id and invoice_number are unique.
InsertInvoice(row, rows) ==
    IF \E r \in rows : r.order_id = row.order_id \/ r.invoice_number = row.invoice_number
    THEN [error |-> "duplicate key value violates unique constraint", rows |-> rows]
    ELSE [error |-> "", rows |-> rows \cup {row}]

inv_frame == <<inventory_pieces, order_vars, ui_vars, sweep, side_vars, ext_vars,
               response, hist_vars>>

\* Step 1: fetch the order; only a confirmed or delivered order gets an invoice.
IssueFetchOrder(c, o) ==
    /\ issue[c].pc = "idle"
    /\ issue' = [issue EXCEPT ![c] =
          IF status[o] = Deleted
          THEN [NoCall EXCEPT !.pc = "done", !.order = o, !.error = "Order fetch failed"]
          ELSE IF status[o] # "confirmed" /\ status[o] # "delivered"
          THEN [NoCall EXCEPT !.pc = "done", !.order = o,
                  !.error = "Only confirmed or delivered orders can generate an invoice"]
          ELSE [NoCall EXCEPT !.pc = "lookup", !.order = o]]
    /\ UNCHANGED <<blast_invoices, storage, inv_frame>>

\* Step 2: look for the order's invoice; with one, its pdf_url is the path;
\* without, a new invoice number is drawn and the document rendered.
IssueLookup(c, n) ==
    /\ issue[c].pc = "lookup"
    /\ LET existing == Single(InvoicesOf(issue[c].order, blast_invoices))
       IN  issue' = [issue EXCEPT ![c] =
             IF existing.pdf_url # 0
             THEN [@ EXCEPT !.pc = "sign", !.path = existing.pdf_url]
             ELSE [@ EXCEPT !.pc = "upload", !.number = n]]
    /\ UNCHANGED <<blast_invoices, storage, inv_frame>>

\* Step 4: storage.upload(finalPdfPath, pdfBytes, { upsert: true }).
IssueUpload(c) ==
    /\ issue[c].pc = "upload"
    /\ storage' = [storage EXCEPT ![PdfPath(issue[c].number)] = issue[c].order]
    /\ issue' = [issue EXCEPT ![c] =
          [@ EXCEPT !.pc = "insert", !.path = PdfPath(issue[c].number)]]
    /\ UNCHANGED <<blast_invoices, inv_frame>>

\* Step 5: insert the invoice row; if (insertError) throw insertError.
IssueInsert(c) ==
    /\ issue[c].pc = "insert"
    /\ LET ins == InsertInvoice([invoice_number |-> issue[c].number,
                                 order_id |-> issue[c].order,
                                 pdf_url |-> issue[c].path], blast_invoices)
       IN  /\ blast_invoices' = ins.rows
           /\ issue' = [issue EXCEPT ![c] =
                 IF ins.error # ""
                 THEN [@ EXCEPT !.pc = "done", !.error = ins.error]
                 ELSE [@ EXCEPT !.pc = "sign"]]
    /\ UNCHANGED <<storage, inv_frame>>

\* Step 6: createSignedUrl(finalPdfPath) and the 200 answer.
IssueSign(c) ==
    /\ issue[c].pc = "sign"
    /\ issue' = [issue EXCEPT ![c] =
          IF storage[issue[c].path] = NoDocument
          THEN [@ EXCEPT !.pc = "done", !.error = "Object not found"]
          ELSE [@ EXCEPT !.pc = "done", !.ok = TRUE]]
    /\ UNCHANGED <<blast_invoices, storage, inv_frame>>

\* Orders in any status, no invoice yet.
InitInvoice ==
    /\ inventory_pieces = [p \in Products |-> MaxStock]
    /\ initial_pieces = inventory_pieces
    /\ order_items = [o \in Orders |-> <<CHOOSE l \in CartLines : l.product_id = 1>>]
    /\ status \in [Orders -> OrderStatus]
    /\ displayed = [o \in Orders |-> {}]
    /\ order_old = [o \in Orders |-> FALSE]
    /\ shown_pieces = [p \in Products |-> NotLoaded]
    /\ sweep = NoSweep
    /\ InitExt
    /\ blast_returns = <<>>
    /\ blast_inventory_adjustments = <<>>
    /\ blast_audit_logs = <<>>
    /\ blast_products = DefaultProducts
    /\ NoInvoices
    /\ response = NoResponse
    /\ confirm_log = [o \in Orders |-> <<>>]
    /\ pre_confirm = [o \in Orders |-> NoSnapshot]

NextInvoice ==
    \/ \E c \in IssueCalls : \E o \in Orders : IssueFetchOrder(c, o)
    \/ \E c \in IssueCalls : \E n \in InvoiceNumbers : IssueLookup(c, n)
    \/ \E c \in IssueCalls : IssueUpload(c)
    \/ \E c \in IssueCalls : IssueInsert(c)
    \/ \E c \in IssueCalls : IssueSign(c)

SpecInvoice == InitInvoice /\ [][NextInvoice]_vars

\* --------------------------------------------- invoices and cancellations
\* The invoice generator's steps with the order pages' Cancel button.
NextInvoiceCancel ==
    \/ NextInvoice
    \/ \E o \in Orders : FetchOrder(o)
    \/ \E o \in Orders : DoCancel(o)

SpecInvoiceCancel == InitInvoice /\ [][NextInvoiceCancel]_vars

\* ------------------------------------------------------- the confirm race
\* N draft orders, each with one line for Q pieces of product 1 whose stock is P;
\* every order's page is open and shows the draft.
InitRace ==
    /\ \E P \in 0..MaxStock :
          /\ inventory_pieces = [p \in Products |-> P]
          /\ initial_pieces = [p \in Products |-> P]
    /\ \E l \in {x \in CartLines : x.product_id = 1} :
          order_items = [o \in Orders |-> <<l>>]
    /\ status = [o \in Orders |-> "draft"]
    /\ displayed = [o \in Orders |-> {"draft"}]
    /\ order_old = [o \in Orders |-> FALSE]
    /\ shown_pieces = [p \in Products |-> NotLoaded]
    /\ sweep = NoSweep
    /\ InitExt
    /\ blast_returns = <<>>
    /\ blast_inventory_adjustments = <<>>
    /\ blast_audit_logs = <<>>
    /\ blast_products = DefaultProducts
    /\ NoInvoices
    /\ response = NoResponse
    /\ confirm_log = [o \in Orders |-> <<>>]
    /\ pre_confirm = [o \in Orders |-> NoSnapshot]

NextRace ==
    \/ \E o \in Orders : DoConfirmLogged(o)
    \/ ConfirmMissingId

SpecRace == InitRace /\ [][NextRace]_vars


\* ------------------------------------------------------ the order workflow
\* Draft orders with any carts, any stock; no page is open yet.
InitOrders ==
    /\ inventory_pieces \in [Products -> 0..MaxStock]
    /\ initial_pieces = inventory_pieces
    /\ \E c \in Carts :
          \E l \in CartLines :
              order_items = [o \in Orders |-> IF o = 1 THEN c ELSE <<l>>]
    /\ status = [o \in Orders |-> "draft"]
    /\ displayed = [o \in Orders |-> {}]
    /\ order_old = [o \in Orders |-> FALSE]
    /\ shown_pieces = [p \in Products |-> NotLoaded]
    /\ sweep = NoSweep
    /\ InitExt
    /\ blast_returns = <<>>
    /\ blast_inventory_adjustments = <<>>
    /\ blast_audit_logs = <<>>
    /\ blast_products = DefaultProducts
    /\ NoInvoices
    /\ response = NoResponse
    /\ confirm_log = [o \in Orders |-> <<>>]
    /\ pre_confirm = [o \in Orders |-> NoSnapshot]

NextOrders ==
    \/ \E o \in Orders : FetchOrder(o)
    \/ \E o \in Orders : DoConfirmTracked(o)
    \/ \E o \in Orders : DoCancelTracked(o)
    \/ \E o \in Orders : DoDeliver(o)

SpecOrders == InitOrders /\ [][NextOrders]_vars

\* ------------------------------------------- confirm calls and the sweep
\* Draft orders that all hold the same cart, every page open on its draft.
InitConfirm ==
    /\ \E P \in 0..MaxStock :
          /\ inventory_pieces = [p \in Products |-> P]
          /\ initial_pieces = [p \in Products |-> P]
    /\ \E c \in Carts : order_items = [o \in Orders |-> c]
    /\ status = [o \in Orders |-> "draft"]
    /\ displayed = [o \in Orders |-> {"draft"}]
    /\ order_old = [o \in Orders |-> FALSE]
    /\ shown_pieces = [p \in Products |-> NotLoaded]
    /\ sweep = NoSweep
    /\ InitExt
    /\ blast_returns = <<>>
    /\ blast_inventory_adjustments = <<>>
    /\ blast_audit_logs = <<>>
    /\ blast_products = DefaultProducts
    /\ NoInvoices
    /\ response = NoResponse
    /\ confirm_log = [o \in Orders |-> <<>>]
    /\ pre_confirm = [o \in Orders |-> NoSnapshot]

NextConfirm ==
    \/ \E o \in Orders : DoConfirmLogged(o)
    \/ \E o \in Orders : AgeOrder(o)
    \/ InvClearDraftsSelect(CronRun)
    \/ InvClearDraftsDelete(CronRun)

SpecConfirm == InitConfirm /\ [][NextConfirm]_vars

\* ------------------------------------------------------- the stock ledger
\* Draft orders that hold the same one-line cart, every product with the same
\* stock; every order's page is open on the draft.
InitLedger ==
    /\ \E P \in 0..MaxStock :
          /\ inventory_pieces = [p \in Products |-> P]
          /\ initial_pieces = [p \in Products |-> P]
    /\ \E l \in CartLines : order_items = [o \in Orders |-> <<l>>]
    /\ status = [o \in Orders |-> "draft"]
    /\ displayed = [o \in Orders |-> {"draft"}]
    /\ order_old = [o \in Orders |-> FALSE]
    /\ shown_pieces = [p \in Products |-> NotLoaded]
    /\ sweep = NoSweep
    /\ InitExt
    /\ blast_returns = <<>>
    /\ blast_inventory_adjustments = <<>>
    /\ blast_audit_logs = <<>>
    /\ blast_products = DefaultProducts
    /\ NoInvoices
    /\ response = NoResponse
    /\ confirm_log = [o \in Orders |-> <<>>]
    /\ pre_confirm = [o \in Orders |-> NoSnapshot]

NextLedger ==
    \/ \E o \in Orders : DoConfirm(o)
    \/ \E o \in Orders : DoCancel(o)
    \/ FetchProducts
    \/ \E p \in Products : \E qty \in 0..MaxAdjust : \E before \in 0..MaxStock :
          HandleAdjust(p, qty, before)
    \/ \E p \in Products \cup {NoProduct} : \E n \in 0..MaxRestock :
          InvAdminRestock(p, n)

SpecLedger == InitLedger /\ [][NextLedger]_vars

\* ------------------------------------------------- drafts: create and delete
\* A confirm flag that is always on.
AlwaysConfirm(confirm) == TRUE

\* saveOrder(confirm): "if (confirm)" decides whether inv_confirm_order is invoked.
ShouldConfirm(confirm) == confirm

\* No order rows yet.
NoOrders ==
    /\ status = [o \in Orders |-> Deleted]
    /\ order_items = [o \in Orders |-> <<>>]
    /\ order_old = [o \in Orders |-> FALSE]

\* Pos.saveOrder(confirm) with a non-empty cart of positive quantities: inserts
\* the order as a draft and its items, then, when asked, invokes
\* inv_confirm_order for it; a failing confirm leaves the draft in place.
SaveOrderCall(o, cart, confirm) ==
    /\ status[o] = Deleted
    /\ order_items[o] = <<>>
    /\ LET st == [status EXCEPT ![o] = "draft"]
           items == [order_items EXCEPT ![o] = cart]
           rpc == blast_confirm_order_transaction(o, st, items, inventory_pieces)
           res == ConfirmResponse(o, rpc)
       IN  /\ order_items' = items
           /\ IF ShouldConfirm(confirm)
              THEN /\ status' = rpc.st
                   /\ inventory_pieces' = rpc.inv
                   /\ response' = [res EXCEPT !.fn = "saveOrder"]
                   /\ confirm_log' = [confirm_log EXCEPT ![o] = Append(@, res)]
              ELSE /\ status' = st
                   /\ inventory_pieces' = inventory_pieces
                   /\ response' = Resp("saveOrder", o, TRUE, "", NoProduct)
                   /\ confirm_log' = confirm_log
    /\ UNCHANGED <<order_old, ui_vars, sweep, side_vars, inv_vars, ext_rest, initial_pieces,
                   pre_confirm>>

\* saveOrder, leaving aside the amounts it stores on the order row.
SaveOrder(o, cart, confirm) ==
    /\ SaveOrderCall(o, cart, confirm)
    /\ UNCHANGED order_totals

\* Orders.fetchOrders: the Orders page (re)loads the order rows.
FetchOrders ==
    /\ \E o \in Orders : status[o] # Deleted /\ status[o] \notin displayed[o]
    /\ displayed' = [o \in Orders |->
                       IF status[o] # Deleted THEN displayed[o] \cup {status[o]}
                       ELSE displayed[o]]
    /\ UNCHANGED <<inventory_pieces, order_vars, shown_pieces, sweep, side_vars, inv_vars, ext_vars,
                   response, hist_vars>>

\* The row policy on blast_orders: a user's delete reaches only draft rows.
DeleteDrafts(ids, st) == DeleteIn({o \in ids : st[o] = "draft"}, st)

\* Orders.handleBulkDelete: every selected order must show as a draft on the
\* page; then delete ... where id in (selected).
HandleBulkDelete(selected) ==
    /\ selected # {}
    /\ \A id \in selected : "draft" \in displayed[id]
    /\ status' = DeleteDrafts(selected, status)
    /\ response' = Resp("handleBulkDelete", NoOrder, TRUE, "", NoProduct)
    /\ UNCHANGED <<inventory_pieces, order_items, order_old, ui_vars, sweep, side_vars,
                   inv_vars, ext_vars, hist_vars>>

\* Orders are created, listed, deleted by their owner and swept.
InitDrafts ==
    /\ \E P \in 0..MaxStock :
          /\ inventory_pieces = [p \in Products |-> P]
          /\ initial_pieces = [p \in Products |-> P]
    /\ NoOrders
    /\ displayed = [o \in Orders |-> {}]
    /\ shown_pieces = [p \in Products |-> NotLoaded]
    /\ sweep = NoSweep
    /\ InitExt
    /\ blast_returns = <<>>
    /\ blast_inventory_adjustments = <<>>
    /\ blast_audit_logs = <<>>
    /\ blast_products = DefaultProducts
    /\ NoInvoices
    /\ response = NoResponse
    /\ confirm_log = [o \in Orders |-> <<>>]
    /\ pre_confirm = [o \in Orders |-> NoSnapshot]

\* The carts tried for order o: any cart for the first order, one line for the others.
DraftCarts(o) == IF o = 1 THEN Carts ELSE {<<l>> : l \in CartLines}

NextDrafts ==
    \/ \E o \in Orders : \E cart \in DraftCarts(o) : \E confirm \in BOOLEAN :
          SaveOrder(o, cart, confirm)
    \/ FetchOrders
    \/ \E selected \in SUBSET Orders : HandleBulkDelete(selected)
    \/ \E o \in Orders : AgeOrder(o)
    \/ InvClearDraftsSelect(CronRun)
    \/ InvClearDraftsDelete(CronRun)

SpecDrafts == InitDrafts /\ [][NextDrafts]_vars

\* ------------------------------------------------ the adjustment records
\* Any stock, no adjustment row yet; the Inventory page is not loaded.
InitAdjust ==
    /\ inventory_pieces \in [Products -> 0..MaxStock]
    /\ initial_pieces = inventory_pieces
    /\ order_items = [o \in Orders |-> <<CHOOSE l \in CartLines : l.product_id = 1>>]
    /\ status = [o \in Orders |-> "draft"]
    /\ displayed = [o \in Orders |-> {}]
    /\ order_old = [o \in Orders |-> FALSE]
    /\ shown_pieces = [p \in Products |-> NotLoaded]
    /\ sweep = NoSweep
    /\ InitExt
    /\ blast_returns = <<>>
    /\ blast_inventory_adjustments = <<>>
    /\ blast_audit_logs = <<>>
    /\ blast_products = DefaultProducts
    /\ NoInvoices
    /\ response = NoResponse
    /\ confirm_log = [o \in Orders |-> <<>>]
    /\ pre_confirm = [o \in Orders |-> NoSnapshot]

NextAdjust ==
    \/ FetchProducts
    \/ \E p \in Products : \E qty \in 0..MaxAdjust : \E before \in 0..MaxStock :
          HandleAdjustLogged(p, qty, before)
    \/ \E p \in Products \cup {NoProduct} : \E n \in RestockAmounts :
          InvAdminRestockLogged(p, n)

SpecAdjust == InitAdjust /\ [][NextAdjust]_vars

\* ------------------------------------------------ orders and stock together
\* The order buttons, the manual adjustment and the restock, over the same rows.
NextConsistency ==
    \/ \E o \in Orders : DoConfirm(o)
    \/ \E o \in Orders : DoCancel(o)
    \/ \E o \in Orders : DoDeliver(o)
    \/ FetchProducts
    \/ \E p \in Products : \E qty \in 0..MaxAdjust : \E before \in 0..MaxStock :
          HandleAdjustLogged(p, qty, before)
    \/ \E p \in Products \cup {NoProduct} : \E n \in RestockAmounts :
          InvAdminRestockLogged(p, n)

SpecConsistency == InitLedger /\ [][NextConsistency]_vars

\* ---------------------------------------------------------- the audit log
\* A trigger that does not fire on DELETE.
AuditNoDelete(orders_written, st, st2, products_written, inv, inv2) ==
    SelectSeq([o \in Orders |->
                 [entity_type |-> "blast_orders", entity_id |-> o,
                  action |-> IF st[o] = Deleted THEN "INSERT" ELSE "UPDATE",
                  before |-> st[o], after |-> st2[o]]],
              LAMBDA e : e.entity_id \in orders_written /\ e.after # Deleted)
    \o SelectSeq([p \in Products |->
                    [entity_type |-> "blast_products", entity_id |-> p,
                     action |-> "UPDATE", before |-> inv[p], after |-> inv2[p]]],
                 LAMBDA e : e.entity_id \in products_written)

\* generic_audit_trigger: one entry per written row of blast_orders and
\* blast_products, with the row before and after the write (a missing row is
\* "deleted"), appended in the transaction of the write.
generic_audit_trigger(orders_written, st, st2, products_written, inv, inv2) ==
    SelectSeq([o \in Orders |->
                 [entity_type |-> "blast_orders", entity_id |-> o,
                  action |-> IF st[o] = Deleted THEN "INSERT"
                             ELSE IF st2[o] = Deleted THEN "DELETE" ELSE "UPDATE",
                  before |-> st[o], after |-> st2[o]]],
              LAMBDA e : e.entity_id \in orders_written)
    \o SelectSeq([p \in Products |->
                    [entity_type |-> "blast_products", entity_id |-> p,
                     action |-> "UPDATE", before |-> inv[p], after |-> inv2[p]]],
                 LAMBDA e : e.entity_id \in products_written)

\* The rows of blast_orders and blast_products a statement wrote, given the
\* tables before and after: the audit entries appended with it.
Audited(orders_written, products_written) ==
    /\ Len(blast_audit_logs) < MaxAuditEntries
    /\ blast_audit_logs' =
          blast_audit_logs
          \o generic_audit_trigger(orders_written, status, status',
                                   products_written, inventory_pieces, inventory_pieces')

audit_frame == <<order_items, order_old, blast_returns, blast_inventory_adjustments,
                 blast_products, inv_vars, ext_vars, hist_vars>>

\* inv_confirm_order (service role, RPC): the transaction writes the order row
\* and the row of every product of the order, or nothing when it fails.
AuditedConfirm(o) ==
    /\ "draft" \in displayed[o]
    /\ LET rpc == blast_confirm_order_transaction(o, status, order_items, inventory_pieces)
       IN  /\ status' = rpc.st
           /\ inventory_pieces' = rpc.inv
           /\ response' = ConfirmResponse(o, rpc)
           /\ displayed' = IF rpc.error = ""
                           THEN [displayed EXCEPT ![o] = @ \cup {"confirmed"}]
                           ELSE displayed
           /\ IF rpc.error = ""
              THEN Audited({o}, {p \in Products : PiecesOf(order_items[o], p) > 0})
              ELSE Audited({}, {})
    /\ UNCHANGED <<shown_pieces, sweep, audit_frame>>

\* doAction('deliver') (the signed-in user's own update of the order row).
AuditedDeliver(o) ==
    /\ "confirmed" \in displayed[o]
    /\ status' = DeliverUpdate(o, status)
    /\ response' = Resp("deliver", o, TRUE, "", NoProduct)
    /\ displayed' = IF status'[o] # Deleted
                    THEN [displayed EXCEPT ![o] = @ \cup {status'[o]}]
                    ELSE displayed
    /\ UNCHANGED <<inventory_pieces, shown_pieces, sweep, audit_frame>>
    /\ Audited({o} \cap {x \in Orders : status[x] # Deleted}, {})

\* inv_clear_drafts (service role, cron): the delete statement.
AuditedClearDrafts(w) ==
    /\ sweep[w].pc = "selected"
    /\ status' = DeleteIn(sweep[w].ids, status)
    /\ sweep' = [sweep EXCEPT ![w] = Idle]
    /\ response' = Resp("inv_clear_drafts", NoOrder, TRUE, "", NoProduct)
    /\ UNCHANGED <<inventory_pieces, ui_vars, audit_frame>>
    /\ Audited(sweep[w].ids \cap {x \in Orders : status[x] # Deleted}, {})

\* handleAdjust (the signed-in user's own update of the product row).
AuditedAdjust(p, qty, before) ==
    /\ before = shown_pieces[p]
    /\ AdjustAccepted(before, qty)
    /\ inventory_pieces' = [inventory_pieces EXCEPT ![p] = AdjustAfter(before, qty)]
    /\ response' = Resp("handleAdjust", NoOrder, TRUE, "", p)
    /\ shown_pieces' = inventory_pieces'
    /\ UNCHANGED <<status, displayed, sweep, audit_frame>>
    /\ Audited({}, {p})

\* Draft orders with the same one-line cart, their pages open; no audit entry.
InitAudit ==
    /\ \E P \in 0..MaxStock :
          /\ inventory_pieces = [p \in Products |-> P]
          /\ initial_pieces = [p \in Products |-> P]
    /\ \E l \in CartLines : order_items = [o \in Orders |-> <<l>>]
    /\ status = [o \in Orders |-> "draft"]
    /\ displayed = [o \in Orders |-> {"draft"}]
    /\ order_old = [o \in Orders |-> FALSE]
    /\ shown_pieces = [p \in Products |-> NotLoaded]
    /\ sweep = NoSweep
    /\ InitExt
    /\ blast_returns = <<>>
    /\ blast_inventory_adjustments = <<>>
    /\ blast_audit_logs = <<>>
    /\ blast_products = DefaultProducts
    /\ NoInvoices
    /\ response = NoResponse
    /\ confirm_log = [o \in Orders |-> <<>>]
    /\ pre_confirm = [o \in Orders |-> NoSnapshot]

NextAudit ==
    \/ \E o \in Orders : AuditedConfirm(o)
    \/ \E o \in Orders : AuditedDeliver(o)
    \/ \E o \in Orders : AgeOrder(o)
    \/ InvClearDraftsSelect(CronRun)
    \/ AuditedClearDrafts(CronRun)
    \/ FetchProducts
    \/ \E p \in Products : \E qty \in 1..MaxAdjust : \E before \in 0..MaxStock :
          AuditedAdjust(p, qty, before)

SpecAudit == InitAudit /\ [][NextAudit]_vars

\* ------------------------------------------------------------- returns
ReturnConditions == {"resellable", "damaged", "expired"}

\* A return line: the order item it refers to (its position among the order's
\* items), the pieces returned and their condition.
ReturnLines(o) ==
    [order_item_id : 1..Len(order_items[o]),
     pieces_returned : 1..MaxPiecesReturned,
     condition : ReturnConditions]

\* The requests tried for order o: one line, or two lines of different conditions.
ReturnRequests(o) ==
    {<<l>> : l \in ReturnLines(o)}
    \cup {r \in ReturnLines(o) \X ReturnLines(o) : r[1].condition # r[2].condition}

\* Pieces of order item i of order o over a sequence of return lines.
LinePieces(lines, i) ==
    SumSeq([k \in 1..Len(lines) |->
              IF lines[k].order_item_id = i THEN lines[k].pieces_returned ELSE 0])

\* Pieces of order item i of order o over all the return requests of the order.
ReturnedPieces(returns, o, i) ==
    SumSeq([r \in 1..Len(returns) |->
              IF returns[r].order_id = o THEN LinePieces(returns[r].items, i) ELSE 0])

\* A submit that checks no quantity.
AcceptAnyLines(lines, o, returns) == TRUE

\* submitReturn's check, line by line: the pieces of a line must not exceed the
\* order item's computed pieces net of the returns before it (the earlier
\* requests and the earlier lines of this request).
LinesAccepted(lines, o, returns) ==
    \A k \in 1..Len(lines) :
        lines[k].pieces_returned
          + ReturnedPieces(returns, o, lines[k].order_item_id)
          + LinePieces(SubSeq(lines, 1, k - 1), lines[k].order_item_id)
        <= ComputedPieces(order_items[o][lines[k].order_item_id])

\* submitReturn(orderId, lines, reason), one transaction: the order must be
\* confirmed or delivered and every line pass the check; creates a pending
\* return request.
SubmitReturn(o, lines) ==
    /\ Len(blast_returns) < MaxReturns
    /\ IF status[o] \notin {"confirmed", "delivered"}
       THEN /\ response' = Resp("submitReturn", o, FALSE, "InvalidState", NoProduct)
            /\ UNCHANGED blast_returns
       ELSE IF ~LinesAccepted(lines, o, blast_returns)
       THEN /\ response' = Resp("submitReturn", o, FALSE, "InvalidArgument", NoProduct)
            /\ UNCHANGED blast_returns
       ELSE /\ response' = Resp("submitReturn", o, TRUE, "", NoProduct)
            /\ blast_returns' =
                  Append(blast_returns, [order_id |-> o, status |-> "pending", items |-> lines])
    /\ UNCHANGED <<inventory_pieces, order_vars, ui_vars, sweep, blast_inventory_adjustments,
                   blast_audit_logs, blast_products, inv_vars, ext_vars, hist_vars>>

\* Pieces of product p a return restores when every line is restored.
AllPieces(ret, p) ==
    SumSeq([k \in 1..Len(ret.items) |->
              IF order_items[ret.order_id][ret.items[k].order_item_id].product_id = p
              THEN ret.items[k].pieces_returned ELSE 0])

\* Pieces of product p over the resellable lines of a return.
ResellablePieces(ret, p) ==
    SumSeq([k \in 1..Len(ret.items) |->
              IF /\ ret.items[k].condition = "resellable"
                 /\ order_items[ret.order_id][ret.items[k].order_item_id].product_id = p
              THEN ret.items[k].pieces_returned ELSE 0])

\* An approve that restores every line, whatever its condition.
ProcessRestoreAll(ret, action, admin, inv) ==
    IF action = "approve" /\ ~admin
    THEN [error |-> "Forbidden", status |-> ret.status, inv |-> inv]
    ELSE IF action = "reject"
    THEN [error |-> "", status |-> "rejected", inv |-> inv]
    ELSE [error |-> "", status |-> "approved",
          inv |-> [p \in Products |-> inv[p] + AllPieces(ret, p)]]

\* blast_process_return_transaction: reject marks the return rejected; approve,
\* for an administrator, restores the resellable lines and marks it approved.
blast_process_return_transaction(ret, action, admin, inv) ==
    IF action = "approve" /\ ~admin
    THEN [error |-> "Forbidden", status |-> ret.status, inv |-> inv]
    ELSE IF action = "reject"
    THEN [error |-> "", status |-> "rejected", inv |-> inv]
    ELSE [error |-> "", status |-> "approved",
          inv |-> [p \in Products |-> inv[p] + ResellablePieces(ret, p)]]

\* Returns.handleAction: the Approve and Reject buttons of a pending return
\* invoke inv_process_return with the return's id and the action.
HandleAction(r, action, admin) ==
    /\ r \in 1..Len(blast_returns)
    /\ blast_returns[r].status = "pending"
    /\ LET rpc == blast_process_return_transaction(blast_returns[r], action, admin,
                                                   inventory_pieces)
       IN  /\ inventory_pieces' = rpc.inv
           /\ blast_returns' = [blast_returns EXCEPT ![r].status = rpc.status]
           /\ response' = [Resp("inv_process_return", blast_returns[r].order_id,
                                rpc.error = "", rpc.error, NoProduct)
                             EXCEPT !.fn = IF action = "approve" THEN "approve" ELSE "reject"]
    /\ UNCHANGED <<order_vars, ui_vars, sweep, blast_inventory_adjustments, blast_audit_logs,
                   blast_products, inv_vars, ext_vars, hist_vars>>

\* The first order is confirmed or delivered with any cart, the others are
\* drafts; no return yet.
InitReturns ==
    /\ inventory_pieces = [p \in Products |-> MaxStock]
    /\ initial_pieces = inventory_pieces
    /\ \E c \in {x \in Carts : /\ \A i \in 1..Len(x) : x[i].cases_ordered = MaxCases
                               /\ Len(x) = 2 => x[1].product_id = 1} :
          order_items = [o \in Orders |-> IF o = 1 THEN c ELSE <<c[1]>>]
    /\ \E s \in {"confirmed", "delivered"} :
          status = [o \in Orders |-> IF o = 1 THEN s ELSE "draft"]
    /\ displayed = [o \in Orders |-> {}]
    /\ order_old = [o \in Orders |-> FALSE]
    /\ shown_pieces = [p \in Products |-> NotLoaded]
    /\ sweep = NoSweep
    /\ InitExt
    /\ blast_returns = <<>>
    /\ blast_inventory_adjustments = <<>>
    /\ blast_audit_logs = <<>>
    /\ blast_products = DefaultProducts
    /\ NoInvoices
    /\ response = NoResponse
    /\ confirm_log = [o \in Orders |-> <<>>]
    /\ pre_confirm = [o \in Orders |-> NoSnapshot]

NextReturns ==
    \/ \E o \in Orders : \E lines \in ReturnRequests(o) : SubmitReturn(o, lines)
    \/ \E r \in 1..MaxReturns : \E action \in {"approve", "reject"} : \E admin \in BOOLEAN :
          HandleAction(r, action, admin)

SpecReturns == InitReturns /\ [][NextReturns]_vars

\* ------------------------------------------------- prices and packaging
Prices == 1..MaxPrice
PackSizes == 1..PiecesPerCase

\* The item Pos.saveOrder builds from a cart entry: the cart entry is a copy of
\* the product row, the quantity and the unit ('case' or 'piece').
CartItem(p, unit, qty, products) ==
    [product_id |-> p,
     cases_ordered |-> qty,
     pieces_per_case_snapshot |-> IF unit = "case" THEN products[p].pieces_per_case ELSE 1,
     unit_price_piece_snapshot |-> products[p].unit_price_piece]

\* Pos.saveOrder for a cart of one entry.
PosSaveOrder(o, p, unit, qty, confirm) ==
    SaveOrder(o, <<CartItem(p, unit, qty, blast_products)>>, confirm)

\* Products.handleSave on an existing product: the form's price and case size
\* are written to the product row.
HandleSave(p, price, pack) ==
    /\ blast_products[p] # [unit_price_piece |-> price, pieces_per_case |-> pack]
    /\ blast_products' =
          [blast_products EXCEPT ![p] = [unit_price_piece |-> price, pieces_per_case |-> pack]]
    /\ response' = Resp("handleSave", NoOrder, TRUE, "", p)
    /\ UNCHANGED <<inventory_pieces, order_vars, ui_vars, sweep, blast_returns,
                   blast_inventory_adjustments, blast_audit_logs, inv_vars, ext_vars, hist_vars>>

\* Products.saveInlineEdit of the field unit_price_piece.
SaveInlineEdit(p, price) ==
    /\ blast_products[p].unit_price_piece # price
    /\ blast_products' = [blast_products EXCEPT ![p].unit_price_piece = price]
    /\ response' = Resp("saveInlineEdit", NoOrder, TRUE, "", p)
    /\ UNCHANGED <<inventory_pieces, order_vars, ui_vars, sweep, blast_returns,
                   blast_inventory_adjustments, blast_audit_logs, inv_vars, ext_vars, hist_vars>>

\* An invoice row priced from the product row as it is now.
InvoiceRowLive(item, products) ==
    [product |-> item.product_id,
     cases_ordered |-> item.cases_ordered,
     computed_pieces |-> item.cases_ordered * products[item.product_id].pieces_per_case,
     unit_price |-> products[item.product_id].unit_price_piece,
     total_price |-> item.cases_ordered * products[item.product_id].pieces_per_case
                       * products[item.product_id].unit_price_piece]

\* A row of the invoice table as renderCopy draws it: the product (joined for
\* its sku and name), cases_ordered, and the columns computed_pieces,
\* unit_price_piece_snapshot and total_price of the item, the last being the
\* generated column cases_ordered x pieces_per_case_snapshot x price.
InvoiceRow(item, products) ==
    [product |-> item.product_id,
     cases_ordered |-> item.cases_ordered,
     computed_pieces |-> ComputedPieces(item),
     unit_price |-> item.unit_price_piece_snapshot,
     total_price |-> ComputedPieces(item) * item.unit_price_piece_snapshot]

\* The rows and the total (calculatedTotal) inv_generate_invoice renders for an
\* order.
InvoiceDocument(o) ==
    LET rows == [i \in 1..Len(order_items[o]) |-> InvoiceRow(order_items[o][i], blast_products)]
    IN  [rows |-> rows,
         total |-> SumSeq([i \in 1..Len(rows) |-> rows[i].total_price])]

\* Products with any price and case size, full stock, no order yet.
InitSnapshots ==
    /\ inventory_pieces = [p \in Products |-> MaxStock]
    /\ initial_pieces = inventory_pieces
    /\ NoOrders
    /\ displayed = [o \in Orders |-> {}]
    /\ shown_pieces = [p \in Products |-> NotLoaded]
    /\ sweep = NoSweep
    /\ InitExt
    /\ blast_returns = <<>>
    /\ blast_inventory_adjustments = <<>>
    /\ blast_audit_logs = <<>>
    /\ blast_products \in [Products -> [unit_price_piece : Prices, pieces_per_case : PackSizes]]
    /\ NoInvoices
    /\ response = NoResponse
    /\ confirm_log = [o \in Orders |-> <<>>]
    /\ pre_confirm = [o \in Orders |-> NoSnapshot]

NextSnapshots ==
    \/ \E o \in Orders : \E p \in Products : \E unit \in {"case", "piece"} :
          \E qty \in 1..MaxCases : \E confirm \in BOOLEAN :
              PosSaveOrder(o, p, unit, qty, confirm)
    \/ \E p \in Products : \E price \in Prices : \E pack \in PackSizes :
          HandleSave(p, price, pack)
    \/ \E p \in Products : \E price \in Prices : SaveInlineEdit(p, price)

SpecSnapshots == InitSnapshots /\ [][NextSnapshots]_vars

\* ------------------------------------------------- discounts and totals
\* Amounts on the order row are counted in centavos; the prices of the products
\* are whole pesos.
Centavos == 100

\* Pos: getLineTotal summed over the cart (subtotal).
Subtotal(cart) ==
    Centavos * SumSeq([i \in 1..Len(cart) |->
                         ComputedPieces(cart[i]) * cart[i].unit_price_piece_snapshot])

\* Pos: discountAmount, with v the number typed into the discount field (a
\* percentage, or an amount in pesos).
DiscountAmount(discountType, v, subtotal) ==
    IF discountType = "none" \/ v = 0 THEN 0
    ELSE IF discountType = "percent"
    THEN Min({(subtotal * v) \div 100, subtotal})
    ELSE Min({Centavos * v, subtotal})

\* Pos.saveOrder with the amounts it writes on the order row: total_amount =
\* subtotal - discountAmount and discount_value = discountAmount.
SaveOrderDiscounted(o, cart, discountType, v, confirm) ==
    /\ SaveOrderCall(o, cart, confirm)
    /\ order_totals' =
          [order_totals EXCEPT ![o] =
              [total_amount |-> Subtotal(cart) - DiscountAmount(discountType, v, Subtotal(cart)),
               discount_value |-> DiscountAmount(discountType, v, Subtotal(cart))]]

NextTotals ==
    \E o \in Orders : \E p \in Products : \E unit \in {"case", "piece"} :
        \E qty \in 1..MaxCases : \E discountType \in {"none", "percent", "fixed"} :
            \E v \in 0..MaxDiscount : \E confirm \in BOOLEAN :
                SaveOrderDiscounted(o, <<CartItem(p, unit, qty, blast_products)>>,
                                    discountType, v, confirm)

SpecTotals == InitSnapshots /\ [][NextTotals]_vars

\* ------------------------------------------- a sale whose item insert fails
\* Pos.saveOrder when the insert into blast_order_items fails: the order row was
\* inserted by the request before and stays; itemsError is thrown and shown as
\* a toast, the catch block removes nothing.
SaveOrderItemsFail(o) ==
    /\ status[o] = Deleted
    /\ order_items[o] = <<>>
    /\ status' = [status EXCEPT ![o] = "draft"]
    /\ response' = Resp("saveOrder", o, FALSE, "itemsError", NoProduct)
    /\ UNCHANGED <<inventory_pieces, order_items, order_old, ui_vars, sweep, side_vars,
                   inv_vars, ext_vars, hist_vars>>

NextPosFails ==
    \/ \E o \in Orders : \E cart \in DraftCarts(o) : \E confirm \in BOOLEAN :
          SaveOrder(o, cart, confirm)
    \/ \E o \in Orders : SaveOrderItemsFail(o)

SpecPosFails == InitDrafts /\ [][NextPosFails]_vars

\* ------------------------------------------------- the customer's balance
customer_frame == <<inventory_pieces, order_vars, ui_vars, sweep, side_vars, inv_vars, auth,
                    txns, invokes, order_totals, hist_vars>>

\* Pos.fetchCustomers (on mount) and Customers.fetch: the page loads the
\* customer row.
FetchCustomers(s) ==
    /\ customers.shown[s] # customers.outstanding_balance
    /\ customers' = [customers EXCEPT !.shown[s] = customers.outstanding_balance]
    /\ UNCHANGED <<response, customer_frame>>

\* Pos.saveOrder(confirm) of an Installment order that was confirmed: the
\* customer's balance is set to selectedCustomer.outstanding_balance +
\* totalAmount, with selectedCustomer the row as the page loaded it. The POS
\* page loads the customers once and does not reload them after a sale.
SaveInstallmentOrder(s, totalAmount) ==
    /\ customers.shown[s] >= 0
    /\ Len(customers.installments) < MaxInstallments
    /\ customers' = [customers EXCEPT
                       !.outstanding_balance = customers.shown[s] + totalAmount,
                       !.installments = Append(@, totalAmount)]
    /\ response' = Resp("saveOrder", NoOrder, TRUE, "", NoProduct)
    /\ UNCHANGED customer_frame

\* Customers.handlePayment: an amount above 0 and not above the balance the page
\* shows; the balance is set to max(0, balanceBefore - amount), the payment row
\* is inserted and the page reloads the customers.
HandlePayment(s, amount) ==
    /\ customers.shown[s] >= 0
    /\ Len(customers.payments) < MaxPayments
    /\ amount > 0
    /\ amount <= customers.shown[s]
    /\ LET balanceBefore == customers.shown[s]
           balanceAfter == IF balanceBefore - amount > 0 THEN balanceBefore - amount ELSE 0
       IN  customers' = [customers EXCEPT
                           !.outstanding_balance = balanceAfter,
                           !.payments = Append(@, amount),
                           !.shown[s] = balanceAfter]
    /\ response' = Resp("handlePayment", NoOrder, TRUE, "", NoProduct)
    /\ UNCHANGED customer_frame

NextCustomers ==
    \/ \E s \in Sessions : FetchCustomers(s)
    \/ \E s \in Sessions : \E totalAmount \in 1..MaxTotal : SaveInstallmentOrder(s, totalAmount)
    \/ \E s \in Sessions : \E amount \in 0..MaxTotal : HandlePayment(s, amount)

\* A customer with no debt and no payment; no page has loaded the row yet.
InitCustomers ==
    /\ inventory_pieces = [p \in Products |-> MaxStock]
    /\ initial_pieces = [p \in Products |-> MaxStock]
    /\ NoOrders
    /\ displayed = [o \in Orders |-> {}]
    /\ shown_pieces = [p \in Products |-> NotLoaded]
    /\ sweep = NoSweep
    /\ InitExt
    /\ blast_returns = <<>>
    /\ blast_inventory_adjustments = <<>>
    /\ blast_audit_logs = <<>>
    /\ blast_products = DefaultProducts
    /\ NoInvoices
    /\ response = NoResponse
    /\ confirm_log = [o \in Orders |-> <<>>]
    /\ pre_confirm = [o \in Orders |-> NoSnapshot]

SpecCustomers == InitCustomers /\ [][NextCustomers]_vars

\* ------------------------------------------------ overlapping sweep runs
\* inv_clear_drafts stopped between its two queries (a timeout, a crash of the
\* function): the selection is lost, no row was written.
InvClearDraftsCrash(w) ==
    /\ sweep[w].pc = "selected"
    /\ sweep' = [sweep EXCEPT ![w] = Idle]
    /\ UNCHANGED <<inventory_pieces, order_vars, ui_vars, side_vars, inv_vars, ext_vars, response,
                   hist_vars>>

\* inv_clear_drafts when no draft is older than 24 hours: it answers 200 after
\* the first query and writes nothing.
InvClearDraftsNone(w) ==
    /\ sweep[w] = Idle
    /\ ExpiredDrafts(status, order_old) = {}
    /\ response' = Resp("inv_clear_drafts", NoOrder, TRUE, "", NoProduct)
    /\ UNCHANGED <<inventory_pieces, order_vars, ui_vars, sweep, side_vars, inv_vars, ext_vars,
                   hist_vars>>

\* Orders in any status, some of them older than 24 hours, that hold the same
\* cart; every order's page was opened at the start and is not refreshed.
InitSweep ==
    /\ \E P \in 0..MaxStock :
          /\ inventory_pieces = [p \in Products |-> P]
          /\ initial_pieces = [p \in Products |-> P]
    /\ \E c \in Carts : order_items = [o \in Orders |-> c]
    /\ status \in [Orders -> OrderStatus]
    /\ displayed = [o \in Orders |-> {status[o]}]
    /\ order_old \in [Orders -> BOOLEAN]
    /\ shown_pieces = [p \in Products |-> NotLoaded]
    /\ sweep = NoSweep
    /\ InitExt
    /\ blast_returns = <<>>
    /\ blast_inventory_adjustments = <<>>
    /\ blast_audit_logs = <<>>
    /\ blast_products = DefaultProducts
    /\ NoInvoices
    /\ response = NoResponse
    /\ confirm_log = [o \in Orders |-> <<>>]
    /\ pre_confirm = [o \in Orders |-> NoSnapshot]

NextSweep ==
    \/ \E w \in SweepRuns : InvClearDraftsSelect(w)
    \/ \E w \in SweepRuns : InvClearDraftsDelete(w)
    \/ \E w \in SweepRuns : InvClearDraftsCrash(w)
    \/ \E w \in SweepRuns : InvClearDraftsNone(w)

SpecSweep == InitSweep /\ [][NextSweep]_vars

\* ------------------------------------------------- a sweep whose delete fails
\* inv_clear_drafts when the database refuses to delete the row of order bad:
\* the delete is one statement over all the ids, so the statement fails as a
\* whole and removes no row; deleteError is thrown and answered with status 500.
InvClearDraftsDeleteFails(w, bad) ==
    /\ sweep[w].pc = "selected"
    /\ bad \in sweep[w].ids
    /\ status[bad] # Deleted
    /\ sweep' = [sweep EXCEPT ![w] = Idle]
    /\ response' = Resp("inv_clear_drafts", bad, FALSE, "deleteError", NoProduct)
    /\ UNCHANGED <<inventory_pieces, order_vars, ui_vars, side_vars, inv_vars, ext_vars,
                   hist_vars>>

NextSweepFails ==
    \/ NextSweep
    \/ \E w \in SweepRuns : \E bad \in Orders : InvClearDraftsDeleteFails(w, bad)

SpecSweepFails == InitSweep /\ [][NextSweepFails]_vars

\* ------------------------------------------------ session and idle timer
\* Time is counted in units of ten minutes.
\* IDLE_TIMEOUT_MS, 30 minutes; SESSION_TIMEOUT_MS, 8 hours; the 3600000 ms
\* that the session effect takes for the life of an access token.
IDLE_TIMEOUT_MS == 3
SESSION_TIMEOUT_MS == 48
TokenLifetime == 6
\* The auth client refreshes the access token shortly before it expires.
RefreshMargin == 1

\* The session effect: the session is signed out when more than 8 hours have
\* passed since (expires_at - 1 hour).
SessionExpired(session, now) ==
    LET sessionStart == session.expires_at - TokenLifetime
        elapsed == now - sessionStart
    IN  elapsed > SESSION_TIMEOUT_MS

\* setSession(session) with the effects that depend on it: resetIdleTimer
\* clears the timer and sets a new one, the session effect checks the 8 hours.
SetSession(a, session, signed_in_at) ==
    IF SessionExpired(session, a.now)
    THEN [a EXCEPT !.session = NoSession, !.timer = NoTimer]
    ELSE [a EXCEPT !.session = session, !.timer = a.now + IDLE_TIMEOUT_MS,
                   !.signed_in_at = signed_in_at]

auth_frame == <<inventory_pieces, order_vars, ui_vars, sweep, side_vars, inv_vars,
                txns, invokes, order_totals, customers, response, hist_vars>>

\* onAuthStateChange SIGNED_IN: the user signs in (with a mouse or key event).
SignIn ==
    /\ auth.session = NoSession
    /\ auth.now < MaxTime
    /\ auth' = SetSession([auth EXCEPT !.last_event = auth.now],
                          [expires_at |-> auth.now + TokenLifetime], auth.now)
    /\ UNCHANGED auth_frame

\* onAuthStateChange TOKEN_REFRESHED: a new session object with a later
\* expires_at. An idle timer that is due has fired before.
TokenRefreshed ==
    /\ auth.session # NoSession
    /\ auth.now < auth.timer
    /\ auth.now >= auth.session.expires_at - RefreshMargin
    /\ auth' = SetSession(auth, [expires_at |-> auth.now + TokenLifetime],
                          auth.signed_in_at)
    /\ UNCHANGED auth_frame

\* A mousedown, keydown, scroll or touchstart event: resetIdleTimer.
ResetIdleTimer ==
    /\ auth.session # NoSession
    /\ auth.last_event # auth.now
    /\ auth' = [auth EXCEPT !.timer = auth.now + IDLE_TIMEOUT_MS,
                            !.last_event = auth.now]
    /\ UNCHANGED auth_frame

\* The idle timer fires: signOut().
IdleTimerFires ==
    /\ auth.timer # NoTimer
    /\ auth.now >= auth.timer
    /\ auth' = [auth EXCEPT !.session = NoSession, !.timer = NoTimer]
    /\ UNCHANGED auth_frame

\* Ten minutes pass. A timer that is due fires first, and the token is
\* refreshed before it expires.
Tick ==
    /\ auth.now < MaxTime
    /\ auth.timer = NoTimer \/ auth.now < auth.timer
    /\ auth.session = NoSession \/ auth.now < auth.session.expires_at
    /\ auth' = [auth EXCEPT !.now = auth.now + 1]
    /\ UNCHANGED auth_frame

InitAuth ==
    /\ inventory_pieces = [p \in Products |-> MaxStock]
    /\ initial_pieces = [p \in Products |-> MaxStock]
    /\ NoOrders
    /\ displayed = [o \in Orders |-> {}]
    /\ shown_pieces = [p \in Products |-> NotLoaded]
    /\ sweep = NoSweep
    /\ auth = NoAuth
    /\ txns = [t \in Txns |-> NoTxn]
    /\ invokes = [c \in Invokes |-> NoInvoke]
    /\ order_totals = [o \in Orders |-> NoTotals]
    /\ customers = NoCustomers
    /\ blast_returns = <<>>
    /\ blast_inventory_adjustments = <<>>
    /\ blast_audit_logs = <<>>
    /\ blast_products = DefaultProducts
    /\ NoInvoices
    /\ response = NoResponse
    /\ confirm_log = [o \in Orders |-> <<>>]
    /\ pre_confirm = [o \in Orders |-> NoSnapshot]

NextAuth ==
    \/ SignIn
    \/ TokenRefreshed
    \/ ResetIdleTimer
    \/ IdleTimerFires
    \/ Tick

SpecAuth == InitAuth /\ [][NextAuth]_vars

\* ------------------------------------------- row locks of the transactions
RECURSIVE Ascending(_)
Ascending(S) == IF S = {} THEN <<>> ELSE <<Min(S)>> \o Ascending(S \ {Min(S)})

\* Locks taken line by line, in the order of the order's lines.
LineOrder(items) == [i \in 1..Len(items) |-> items[i].product_id]

\* The order in which a transaction locks the product rows of an order's
\* lines: ascending product id.
LockOrder(items) == Ascending({items[i].product_id : i \in 1..Len(items)})

\* The products a transaction of this kind locks for the order: a confirmation
\* and the cancellation of a confirmed order touch the stock of every line, the
\* cancellation of a draft touches none.
LocksNeeded(kind, o) ==
    IF kind = "cancel" /\ status[o] # "confirmed" THEN <<>> ELSE LockOrder(order_items[o])

LocksHeld == UNION {txns[t].held : t \in Txns}

\* The row the transaction locks next, NoProduct when it holds them all.
NextLock(t) ==
    LET rest == SelectSeq(txns[t].locks, LAMBDA p : p \notin txns[t].held)
    IN  IF rest = <<>> THEN NoProduct ELSE Head(rest)

txn_frame == <<order_vars, ui_vars, sweep, side_vars, inv_vars, auth, invokes, order_totals,
               customers, hist_vars>>

\* BEGIN: an inv_confirm_order or inv_cancel_order request starts its
\* transaction for an order.
TxnBegin(t, kind, o) ==
    /\ txns[t].pc = "none"
    /\ status[o] # Deleted
    /\ txns' = [txns EXCEPT ![t] = [pc |-> "running", kind |-> kind, order |-> o,
                                    held |-> {}, locks |-> LocksNeeded(kind, o)]]
    /\ UNCHANGED <<inventory_pieces, response, txn_frame>>

\* SELECT ... FOR UPDATE of the next product row: granted when no other
\* transaction holds the row, otherwise the transaction waits.
TxnLock(t) ==
    /\ txns[t].pc = "running"
    /\ NextLock(t) # NoProduct
    /\ NextLock(t) \notin LocksHeld
    /\ txns' = [txns EXCEPT ![t].held = @ \cup {NextLock(t)}]
    /\ UNCHANGED <<inventory_pieces, response, txn_frame>>

\* With every row locked the transaction checks, writes and commits, or raises
\* and rolls back; either way its locks are released.
TxnFinish(t) ==
    LET o == txns[t].order
        rpc == IF txns[t].kind = "confirm"
               THEN blast_confirm_order_transaction(o, status, order_items, inventory_pieces)
               ELSE blast_cancel_order_transaction(o, status, order_items, inventory_pieces)
    IN  /\ txns[t].pc = "running"
        /\ NextLock(t) = NoProduct
        /\ inventory_pieces' = rpc.inv
        /\ status' = rpc.st
        /\ response' = IF txns[t].kind = "confirm"
                       THEN ConfirmResponse(o, rpc)
                       ELSE Resp("inv_cancel_order", o, rpc.error = "", rpc.error, NoProduct)
        /\ txns' = [txns EXCEPT ![t].pc = IF rpc.error = "" THEN "committed" ELSE "aborted",
                                ![t].held = {}]
        /\ UNCHANGED <<order_items, order_old, ui_vars, sweep, side_vars, inv_vars, auth,
                       invokes, order_totals, customers, hist_vars>>

\* Carts of one piece per line, on one product or on two in either order.
LockCarts ==
    {c \in Carts : \A i \in 1..Len(c) :
        c[i].cases_ordered = 1 /\ c[i].pieces_per_case_snapshot = 1}

InitLocks ==
    /\ \E P \in 0..MaxStock :
          /\ inventory_pieces = [p \in Products |-> P]
          /\ initial_pieces = [p \in Products |-> P]
    /\ order_items \in [Orders -> LockCarts]
    /\ status \in [Orders -> {"draft", "confirmed"}]
    /\ displayed = [o \in Orders |-> {status[o]}]
    /\ order_old = [o \in Orders |-> FALSE]
    /\ shown_pieces = [p \in Products |-> NotLoaded]
    /\ sweep = NoSweep
    /\ InitExt
    /\ blast_returns = <<>>
    /\ blast_inventory_adjustments = <<>>
    /\ blast_audit_logs = <<>>
    /\ blast_products = DefaultProducts
    /\ NoInvoices
    /\ response = NoResponse
    /\ confirm_log = [o \in Orders |-> <<>>]
    /\ pre_confirm = [o \in Orders |-> NoSnapshot]

NextLocks ==
    \/ \E t \in Txns : \E o \in Orders : TxnBegin(t, "confirm", o)
    \/ \E t \in Txns : \E o \in Orders : TxnBegin(t, "cancel", o)
    \/ \E t \in Txns : TxnLock(t)
    \/ \E t \in Txns : TxnFinish(t)

\* The database runs every transaction that is not waiting for a lock.
SpecLocks ==
    /\ InitLocks
    /\ [][NextLocks]_vars
    /\ \A t \in Txns : WF_vars(TxnLock(t)) /\ WF_vars(TxnFinish(t))

\* ------------------------------------------ invokeEdgeFunction and its timeout
invoke_frame == <<order_items, order_old, shown_pieces, sweep, side_vars, inv_vars, auth,
                  txns, order_totals, customers, hist_vars>>

\* doAction('confirm') or doAction('cancel'): the button of a page that shows
\* the order in a status that renders it; invokeEdgeFunction sends the request
\* and starts its 15 second timer.
InvokeEdgeFunction(c, fn, o) ==
    /\ invokes[c].pc = "none"
    /\ IF fn = "inv_confirm_order"
       THEN "draft" \in displayed[o]
       ELSE displayed[o] \cap {"draft", "confirmed"} # {}
    /\ invokes' = [invokes EXCEPT ![c] = [NoInvoke EXCEPT !.pc = "sent", !.fn = fn,
                                                          !.order = o]]
    /\ UNCHANGED <<inventory_pieces, status, displayed, response, invoke_frame>>

\* The edge function handles the request: nothing stops a request the
\* client no longer waits for.
EdgeFunctionRuns(c) ==
    LET o == invokes[c].order
        rpc == IF invokes[c].fn = "inv_confirm_order"
               THEN blast_confirm_order_transaction(o, status, order_items, inventory_pieces)
               ELSE blast_cancel_order_transaction(o, status, order_items, inventory_pieces)
    IN  /\ invokes[c].pc \in {"sent", "timed out"}
        /\ ~invokes[c].handled
        /\ inventory_pieces' = rpc.inv
        /\ status' = rpc.st
        /\ response' = IF invokes[c].fn = "inv_confirm_order"
                       THEN ConfirmResponse(o, rpc)
                       ELSE Resp("inv_cancel_order", o, rpc.error = "", rpc.error, NoProduct)
        /\ invokes' = [invokes EXCEPT ![c].handled = TRUE, ![c].applied = rpc.error = ""]
        /\ UNCHANGED <<displayed, invoke_frame>>

\* supabase.functions.invoke resolves first: doAction reports the answer and,
\* on success, reloads the order.
InvokeResolves(c) ==
    /\ invokes[c].pc = "sent"
    /\ invokes[c].handled
    /\ invokes' = [invokes EXCEPT ![c].pc = "answered",
                                  ![c].told = IF invokes[c].applied THEN "success" ELSE "error"]
    /\ displayed' = IF invokes[c].applied /\ status[invokes[c].order] # Deleted
                    THEN [displayed EXCEPT ![invokes[c].order] = @ \cup {status[invokes[c].order]}]
                    ELSE displayed
    /\ UNCHANGED <<inventory_pieces, status, response, invoke_frame>>

\* The timeout promise resolves first, 15 seconds after the call: doAction
\* shows "Request to ... timed out". The request itself is not aborted.
InvokeTimesOut(c) ==
    /\ invokes[c].pc = "sent"
    /\ invokes' = [invokes EXCEPT ![c].pc = "timed out", ![c].told = "timed out"]
    /\ UNCHANGED <<inventory_pieces, status, displayed, response, invoke_frame>>

NextInvoke ==
    \/ \E c \in Invokes : \E o \in Orders : InvokeEdgeFunction(c, "inv_confirm_order", o)
    \/ \E c \in Invokes : \E o \in Orders : InvokeEdgeFunction(c, "inv_cancel_order", o)
    \/ \E c \in Invokes : EdgeFunctionRuns(c)
    \/ \E c \in Invokes : InvokeResolves(c)
    \/ \E c \in Invokes : InvokeTimesOut(c)

SpecInvoke == InitLedger /\ [][NextInvoke]_vars

\* =================================================================== claims

\* ---- C1 (SpecRace)
EachCalledOnce == \A o \in Orders : Len(confirm_log[o]) = 1
RaceQ == ComputedPieces(order_items[1][1])
RaceSuccesses == Cardinality({o \in Orders : confirm_log[o][1].ok})

\* C1: when each of the N draft orders, all asking Q pieces of product 1 with
\* stock P, has had its one confirm call, exactly min(N, floor(P/Q)) calls
\* succeeded, every other call failed with InsufficientStock, and the stock is
\* P - successes * Q.
C1_NoOversell ==
    EachCalledOnce =>
        /\ RaceSuccesses = Min({NumOrders, initial_pieces[1] \div RaceQ})
        /\ \A o \in Orders :
              ~confirm_log[o][1].ok => confirm_log[o][1].error = "InsufficientStock"
        /\ inventory_pieces[1] = initial_pieces[1] - RaceSuccesses * RaceQ

\* Every order was called once; some calls succeeded and some were refused.
C1_Witness ==
    /\ EachCalledOnce
    /\ RaceSuccesses >= 1
    /\ RaceSuccesses < NumOrders

\* The product of the first line whose product has too little stock.
FirstShortProduct(o) ==
    LET short == {i \in 1..Len(order_items[o]) :
                    inventory_pieces[order_items[o][i].product_id]
                      < order_items[o][i].cases_ordered
                        * order_items[o][i].pieces_per_case_snapshot}
    IN  IF short = {} THEN NoProduct ELSE order_items[o][Min(short)].product_id

\* ---- C2 (SpecLedger)
NonNegative == \A p \in Products : inventory_pieces[p] >= 0

\* An adjustment that asks for more pieces than the product holds is refused
\* and writes nothing.
AdjustBelowZeroRefused ==
    \A p \in Products : \A qty \in 0..MaxAdjust : \A before \in 0..MaxStock :
        (HandleAdjust(p, qty, before) /\ inventory_pieces[p] - qty < 0) =>
            /\ ~response'.ok
            /\ inventory_pieces' = inventory_pieces

\* A confirm that asks for more pieces than a product holds is refused and
\* writes nothing.
ConfirmBelowZeroRefused ==
    \A o \in Orders :
        (ConfirmCall(o) /\ status[o] = "draft" /\ FirstShortProduct(o) # NoProduct) =>
            /\ ~response'.ok
            /\ inventory_pieces' = inventory_pieces

\* C2: inventory_pieces is never negative, and an operation that would take it
\* below 0 fails and leaves the value as it was.
C2_NonNegative ==
    /\ []NonNegative
    /\ [][AdjustBelowZeroRefused /\ ConfirmBelowZeroRefused]_vars

\* ---- C3 (SpecOrders)
ConfirmAllOrNothing(o) ==
    IF FirstShortProduct(o) # NoProduct
    THEN /\ ~response'.ok
         /\ response'.error = "InsufficientStock"
         /\ response'.product = FirstShortProduct(o)
         /\ inventory_pieces' = inventory_pieces
         /\ status' = status
    ELSE /\ response'.ok
         /\ status'[o] = "confirmed"
         /\ \A q \in Orders \ {o} : status'[q] = status[q]
         /\ \A p \in Products :
               inventory_pieces'[p] = inventory_pieces[p] - PiecesOf(order_items[o], p)

CancelRestores(o) ==
    /\ status[o] = "confirmed" =>
          /\ status'[o] = "cancelled"
          /\ \A p \in Products \ pre_confirm[o].touched :
                inventory_pieces'[p] = pre_confirm[o].inv[p]
    /\ status[o] = "draft" =>
          /\ status'[o] = "cancelled"
          /\ inventory_pieces' = inventory_pieces

AllowedTransitions ==
    {<<"draft", "confirmed">>, <<"confirmed", "delivered">>,
     <<"draft", "cancelled">>, <<"confirmed", "cancelled">>}

\* C5: an order's status changes only along draft->confirmed,
\* confirmed->delivered, draft->cancelled and confirmed->cancelled; a delivered
\* or cancelled order never changes status again.
C5_Transitions ==
    [][\A o \in Orders :
          status'[o] # status[o] => <<status[o], status'[o]>> \in AllowedTransitions]_vars

\* ---- C6 (SpecConfirm)
LogSuccesses(o) == {i \in 1..Len(confirm_log[o]) : confirm_log[o][i].ok}

\* No two orders compete for stock: the start stock covers every order's cart.
NoContention ==
    \A p \in Products :
        SumSeq([o \in Orders |-> PiecesOf(order_items[o], p)]) <= initial_pieces[p]

ConfirmedOnce ==
    \A o \in Orders :
        /\ Cardinality(LogSuccesses(o)) <= 1
        /\ \A i \in LogSuccesses(o) :
              \A j \in (i + 1)..Len(confirm_log[o]) :
                  confirm_log[o][j].error = "InvalidState"
        /\ (Len(confirm_log[o]) >= 2 /\ NoContention
               /\ confirm_log[o][1].error # "InvalidState")
              => Cardinality(LogSuccesses(o)) = 1

DeductedOnce ==
    \A p \in Products :
        inventory_pieces[p] =
            initial_pieces[p]
            - SumSeq([o \in Orders |->
                        IF LogSuccesses(o) # {} THEN PiecesOf(order_items[o], p) ELSE 0])

\* The confirm call this step made, if the order was no draft (or no row).
RefusedIfNotDraft(o) ==
    (Len(confirm_log'[o]) = Len(confirm_log[o]) + 1 /\ status[o] # "draft") =>
        /\ ~response'.ok
        /\ response'.error = "InvalidState"
        /\ inventory_pieces' = inventory_pieces
        /\ status' = status

\* C6: a confirm on an order that is no draft, or no row at all, fails with
\* InvalidState and changes nothing; of the confirm calls made for one draft at
\* most one succeeds (exactly one when the stock covers every cart), all later
\* ones get InvalidState, and the cart is deducted from the stock once.
C6_ConfirmOnce ==
    /\ [](ConfirmedOnce /\ DeductedOnce)
    /\ [][\A o \in Orders : RefusedIfNotDraft(o)]_vars

\* Two calls for one draft: the first succeeded, the second got InvalidState.
C6_Witness ==
    \E o \in Orders :
        /\ Len(confirm_log[o]) = 2
        /\ confirm_log[o][1].ok
        /\ confirm_log[o][2].error = "InvalidState"

\* A call for an order the sweep has deleted got InvalidState.
C6_WitnessDeleted ==
    \E o \in Orders :
        /\ status[o] = Deleted
        /\ Len(confirm_log[o]) >= 1
        /\ confirm_log[o][Len(confirm_log[o])].error = "InvalidState"

\* ---- C7 (SpecInvoice)
\* C7: at most one invoice row exists per order.
C7_OneInvoicePerOrder ==
    \A o \in Orders : Cardinality(InvoicesOf(o, blast_invoices)) <= 1

\* A request lost the insert race: its row was refused, the order has its invoice.
C7_Witness ==
    \E c \in IssueCalls :
        /\ issue[c].pc = "done"
        /\ ~issue[c].ok
        /\ issue[c].number # 0
        /\ \E r \in blast_invoices :
              r.order_id = issue[c].order /\ r.invoice_number # issue[c].number

\* ---- C8 (SpecInvoice)
\* C8: two finished requests for the same confirmed or delivered order both
\* succeeded and returned the same document path.
C8_SameDocument ==
    \A c \in IssueCalls : \A d \in IssueCalls :
        (/\ c # d
         /\ issue[c].pc = "done" /\ issue[d].pc = "done"
         /\ issue[c].order = issue[d].order
         /\ status[issue[c].order] \in {"confirmed", "delivered"})
        => /\ issue[c].ok /\ issue[d].ok
           /\ issue[c].path = issue[d].path

\* ---- C9 (SpecInvoice)
\* C9: the bucket never holds more than one document of an order.
C9_OneDocumentPerOrder ==
    \A o \in Orders : Cardinality({n \in InvoiceNumbers : storage[n] = o}) <= 1

\* ---- C10 (SpecInvoice)
\* C10: an invoice row stays as it is, and the document its pdf_url points to is
\* never written again.
C10_InvoiceImmutable ==
    [][\A r \in blast_invoices :
          /\ r \in blast_invoices'
          /\ storage'[r.pdf_url] = storage[r.pdf_url]]_vars

\* ---- C11 (SpecConfirm)
\* C11: an order row is deleted by the sweep only when, at the moment of the
\* delete, it is a draft older than 24 hours.
C11_ReaperOnlyDrafts ==
    [][\A o \in Orders :
          (status'[o] = Deleted /\ status[o] # Deleted) =>
              (status[o] = "draft" /\ order_old[o])]_vars

\* ---- C12 (SpecDrafts)
\* Saving a draft (no confirmation asked), the owner's delete and the sweep's
\* select and delete write no stock.
DraftStepsKeepStock ==
    (\/ \E o \in Orders : \E cart \in DraftCarts(o) : SaveOrder(o, cart, FALSE)
     \/ \E selected \in SUBSET Orders : HandleBulkDelete(selected)
     \/ InvClearDraftsSelect(CronRun)
     \/ InvClearDraftsDelete(CronRun))
    => inventory_pieces' = inventory_pieces

\* C12: creating a draft and deleting it or letting the sweep expire it changes
\* no product's stock: the stock is always the start stock less the carts of the
\* orders whose confirmation succeeded.
C12_DraftIsolation ==
    /\ [][DraftStepsKeepStock]_vars
    /\ [](\A p \in Products :
            inventory_pieces[p] =
                initial_pieces[p]
                - SumSeq([o \in Orders |->
                            IF LogSuccesses(o) # {} THEN PiecesOf(order_items[o], p) ELSE 0]))

\* A draft was created unconfirmed and is deleted again; another order exists.
C12_Witness ==
    \E o \in Orders :
        /\ status[o] = Deleted
        /\ order_items[o] # <<>>
        /\ confirm_log[o] = <<>>
        /\ inventory_pieces = initial_pieces

\* ---- C13 (SpecLedger)
\* A successful adjustment of qty pieces lowers the stored stock by qty.
AdjustAppliesDelta ==
    \A p \in Products : \A qty \in 0..MaxAdjust : \A before \in 0..MaxStock :
        (HandleAdjust(p, qty, before) /\ response'.ok) =>
            inventory_pieces' = [inventory_pieces EXCEPT ![p] = @ - qty]

\* A successful restock of n pieces raises the stored stock by n.
RestockAppliesDelta ==
    \A p \in Products : \A n \in 0..MaxRestock :
        (InvAdminRestock(p, n) /\ response'.ok) =>
            inventory_pieces' = [inventory_pieces EXCEPT ![p] = @ + n]

\* A successful confirm lowers, a successful cancel of a confirmed order raises,
\* the stored stock by the order's pieces.
OrderAppliesDelta ==
    \A o \in Orders :
        /\ (DoConfirm(o) /\ response'.ok) =>
              inventory_pieces' =
                  [p \in Products |-> inventory_pieces[p] - PiecesOf(order_items[o], p)]
        /\ (DoCancel(o) /\ response'.ok) =>
              inventory_pieces' =
                  [p \in Products |->
                     inventory_pieces[p]
                     + (IF status[o] = "confirmed" THEN PiecesOf(order_items[o], p) ELSE 0)]

\* C13: every stock operation that reports success changes the stored stock by
\* exactly its own delta, and a failing one changes nothing, so the stock is
\* always the start stock plus the deltas of the successful operations.
C13_NoLostUpdate ==
    [][/\ AdjustAppliesDelta
       /\ RestockAppliesDelta
       /\ OrderAppliesDelta
       /\ ~response'.ok => inventory_pieces' = inventory_pieces]_vars

\* ---- C14 (SpecAdjust)
\* The step changed the stock of product p only, and appended one adjustment
\* row for p that holds the stock before and after the step.
RecordedChange(p) ==
    /\ \A q \in Products \ {p} : inventory_pieces'[q] = inventory_pieces[q]
    /\ Len(blast_inventory_adjustments') = Len(blast_inventory_adjustments) + 1
    /\ SubSeq(blast_inventory_adjustments', 1, Len(blast_inventory_adjustments))
          = blast_inventory_adjustments
    /\ LET row == blast_inventory_adjustments'[Len(blast_inventory_adjustments')]
       IN  /\ row.product_id = p
           /\ row.quantity_before = inventory_pieces[p]
           /\ row.quantity_after = inventory_pieces'[p]

\* C14: every step of a restock or a manual adjustment that changes a product's
\* stock appends exactly one adjustment row whose quantity_before and
\* quantity_after are the product's stock before and after the step.
C14_AdjustmentRecorded ==
    [][\A p \in Products :
          inventory_pieces'[p] # inventory_pieces[p] => RecordedChange(p)]_vars

\* ---- C15 (SpecAudit)
\* The entries the step appended.
NewAuditEntries ==
    SubSeq(blast_audit_logs', Len(blast_audit_logs) + 1, Len(blast_audit_logs'))

\* The appended entries about one row.
EntriesAbout(type, id) ==
    {i \in 1..Len(NewAuditEntries) :
        NewAuditEntries[i].entity_type = type /\ NewAuditEntries[i].entity_id = id}

ResolveEffect(r, action) ==
    IF action = "approve"
    THEN /\ blast_returns'[r].status = "approved"
         /\ \A p \in Products :
               inventory_pieces'[p] =
                   inventory_pieces[p] + ResellablePieces(blast_returns[r], p)
    ELSE /\ blast_returns'[r].status = "rejected"
         /\ inventory_pieces' = inventory_pieces

\* C16: approving a return adds to each product the pieces of the return's
\* resellable lines and nothing for its damaged or expired lines, and marks the
\* return approved; rejecting marks it rejected and changes no stock.
C16_ResolveReturn ==
    [][\A r \in 1..MaxReturns : \A action \in {"approve", "reject"} :
          (HandleAction(r, action, TRUE) /\ response'.ok) => ResolveEffect(r, action)]_vars

\* A return with a resellable line and a line that is not resellable was
\* approved.
C16_Witness ==
    \E r \in 1..Len(blast_returns) :
        /\ blast_returns[r].status = "approved"
        /\ Len(blast_returns[r].items) = 2
        /\ blast_returns[r].items[1].condition = "resellable"
        /\ blast_returns[r].items[2].condition # "resellable"
        /\ response.fn = "approve"
        /\ response.ok

\* ---- C17 (SpecReturns)
\* C17: for every order item, the pieces returned over all the order's return
\* requests never exceed the item's computed pieces.
C17_ReturnsWithinOrder ==
    \A o \in Orders : \A i \in 1..Len(order_items[o]) :
        ReturnedPieces(blast_returns, o, i) <= ComputedPieces(order_items[o][i])

\* An order item is fully returned by two accepted requests.
C17_Witness ==
    /\ Len(blast_returns) = 2
    /\ \E i \in 1..Len(order_items[1]) :
          /\ ReturnedPieces(blast_returns, 1, i) = ComputedPieces(order_items[1][i])
          /\ LinePieces(blast_returns[1].items, i) > 0
          /\ LinePieces(blast_returns[2].items, i) > 0
    /\ response.fn = "submitReturn"
    /\ response.ok

\* ---- C18 (SpecAdjust)
\* What one inv_admin_restock request does.
RestockEffect(p, n) ==
    IF p = NoProduct \/ n <= 0
    THEN /\ ~response'.ok
         /\ inventory_pieces' = inventory_pieces
         /\ blast_inventory_adjustments' = blast_inventory_adjustments
    ELSE /\ response'.ok
         /\ inventory_pieces' = [inventory_pieces EXCEPT ![p] = @ + n]

\* C18: a restock request without a product id, or with an amount that is
\* missing, zero or negative, is refused and writes nothing; a request with a
\* positive amount adds that amount to the product named and to no other.
C18_RestockValidated ==
    [][\A p \in Products \cup {NoProduct} : \A n \in RestockAmounts :
          InvAdminRestockLogged(p, n) => RestockEffect(p, n)]_vars

\* A restock went through and a later request with a bad amount was refused.
C18_Witness ==
    /\ response.fn = "inv_admin_restock"
    /\ ~response.ok
    /\ response.product # NoProduct
    /\ \E i \in 1..Len(blast_inventory_adjustments) :
          /\ blast_inventory_adjustments[i].adjustment_type = "restock"
          /\ blast_inventory_adjustments[i].product_id = response.product

SweptOnce ==
    [o \in Orders |->
        IF displayed[o] = {"draft"} /\ order_old[o] THEN Deleted
        ELSE CHOOSE st \in displayed[o] : TRUE]

\* C20: once a run of the sweep has completed, the orders are those one
\* completed run leaves, whatever other runs of the sweep came before it, overlap
\* it or follow it, or stopped between their select and their delete; the
\* order lines that remain and the stock are those of the start.
C20_SweepIdempotent ==
    /\ [](response.fn = "inv_clear_drafts" => status = SweptOnce)
    /\ [](inventory_pieces = initial_pieces)
    /\ [][order_items' = order_items]_vars

\* A run has completed and deleted an order while another run still holds its
\* own selection of the same order.
C20_Witness ==
    /\ response.fn = "inv_clear_drafts"
    /\ \E w \in SweepRuns : \E o \in Orders :
          /\ sweep[w].pc = "selected"
          /\ o \in sweep[w].ids
          /\ status[o] = Deleted

\* ---- C21 (SpecAuth)
\* No signed-in tab has gone more than 30 minutes without an event.
IdleLogout ==
    auth.session # NoSession => auth.now - auth.last_event <= IDLE_TIMEOUT_MS

\* No signed-in tab's session has lasted more than 8 hours.
MaxSessionLogout ==
    auth.session # NoSession => auth.now - auth.signed_in_at <= SESSION_TIMEOUT_MS

\* C21: a signed-in user is signed out after 30 minutes without a mousedown,
\* keydown, scroll or touchstart event, and after 8 hours of session.
C21_AutoLogout == IdleLogout /\ MaxSessionLogout

\* ---- C22 (SpecLocks)
\* Transaction t waits for a row that transaction u holds.
WaitsFor(t, u) ==
    /\ txns[t].pc = "running"
    /\ NextLock(t) # NoProduct
    /\ NextLock(t) \in txns[u].held

\* C22: the confirm and cancel transactions lock their product rows in
\* ascending product id, so no two of them wait for each other, and every
\* started transaction eventually commits or aborts.
C22_NoDeadlock ==
    /\ [](\A t \in Txns : \A u \in Txns : ~(WaitsFor(t, u) /\ WaitsFor(u, t)))
    /\ [](\A t \in Txns : \A i \in 1..Len(txns[t].locks) : \A j \in 1..Len(txns[t].locks) :
            i < j => txns[t].locks[i] < txns[t].locks[j])
    /\ \A t \in Txns :
          (txns[t].pc = "running") ~> (txns[t].pc \in {"committed", "aborted"})

\* Two transactions over orders with the same two products in opposite line
\* order: one has committed, the other holds rows and is still running.
C22_Witness ==
    \E t \in Txns : \E u \in Txns :
        /\ txns[t].pc = "committed"
        /\ txns[u].pc = "running"
        /\ txns[u].held # {}
        /\ Len(txns[t].locks) = 2
        /\ Len(txns[u].locks) = 2
        /\ LineOrder(order_items[txns[t].order]) # LineOrder(order_items[txns[u].order])

\* ---- C23 (SpecSweepFails)
\* C23: when the delete of one selected draft fails, the sweep still deletes
\* every other draft it selected.
C23_DeleteFailureNotFatal ==
    [][\A w \in SweepRuns : \A bad \in Orders :
          InvClearDraftsDeleteFails(w, bad) =>
              \A o \in sweep[w].ids \ {bad} : status'[o] = Deleted]_vars

\* ---- C24 (SpecConsistency)
\* Pieces the restocks and the manual adjustments recorded for product p.
RecordedDeltas(p) ==
    SumSeq([k \in 1..Len(blast_inventory_adjustments) |->
              IF blast_inventory_adjustments[k].product_id = p
              THEN blast_inventory_adjustments[k].quantity_change ELSE 0])

\* Pieces of product p on the lines of the confirmed and delivered orders.
SoldPieces(p) ==
    SumSeq([o \in Orders |->
              IF status[o] \in {"confirmed", "delivered"}
              THEN PiecesOf(order_items[o], p) ELSE 0])

\* Resellable pieces of product p over the approved returns.
RestoredPieces(p) ==
    SumSeq([r \in 1..Len(blast_returns) |->
              IF blast_returns[r].status = "approved"
              THEN ResellablePieces(blast_returns[r], p) ELSE 0])

\* C24: for every product the stock is the start stock plus the restocked
\* pieces and the manual adjustments, less the pieces of the confirmed and
\* delivered orders, plus the resellable pieces of the approved returns.
C24_StockMatchesOrders ==
    \A p \in Products :
        inventory_pieces[p] =
            initial_pieces[p] + RecordedDeltas(p) - SoldPieces(p) + RestoredPieces(p)

\* ---- C25 (SpecInvoke)
\* C25: a confirm or cancel that the client was told has timed out has changed
\* neither the order nor the stock.
C25_TimeoutMeansNoEffect ==
    \A c \in Invokes : invokes[c].told = "timed out" => ~invokes[c].applied

\* ---- C27 (SpecInvoiceCancel)
\* C27: every invoice row belongs to a stored order that is confirmed or
\* delivered.
C27_InvoiceOnlyForCommitted ==
    \A r \in blast_invoices : status[r.order_id] \in {"confirmed", "delivered"}

\* ---- C28 (SpecTotals)
\* C28: the total an invoice shows for an order is the order's total_amount,
\* which is the sum of its line totals less its stored discount.
C28_InvoiceTotal ==
    \A o \in Orders :
        status[o] \in {"confirmed", "delivered"} =>
            /\ order_totals[o].total_amount =
                  Subtotal(order_items[o]) - order_totals[o].discount_value
            /\ Centavos * InvoiceDocument(o).total = order_totals[o].total_amount

\* ---- C29 (SpecPosFails)
\* C29: every stored order has at least one order line.
C29_OrderHasLines ==
    \A o \in Orders : status[o] # Deleted => order_items[o] # <<>>

\* ---- C30 (SpecCustomers)
\* C30: the customer's outstanding_balance is the sum of the totals of the
\* confirmed Installment orders less the sum of the recorded payments.
C30_BalanceMatches ==
    customers.outstanding_balance =
        SumSeq(customers.installments) - SumSeq(customers.payments)

====
